---- MODULE Spec2Model ----
(***************************************************************************)
(* Model of the signalk-noaa-weather-report plugin: the Signal K sampler   *)
(* and averager (signalkReader.js), the BBXX encoder (weatherReport.js),   *)
(* the BBXX decoder (validate_bbxx.js) and the plugin life cycle           *)
(* (index.js).                                                             *)
(*                                                                         *)
(* Numbers.  JavaScript doubles are represented in fixed point: degrees,   *)
(* knots, m/s, degrees Celsius and Kelvin in thousandths, radians in       *)
(* thousandths of a radian, sines and cosines in ten-thousandths.  A       *)
(* JavaScript value that may be null, undefined or NaN is a record         *)
(* [tag, v]: tag "num" carries the number in v.                            *)
(*                                                                         *)
(* Strings are sequences of one-character strings, so that padding,        *)
(* substring, split and parseInt are modelled by what they do.             *)
(***************************************************************************)
EXTENDS Integers, Sequences, FiniteSets, TLC

VARIABLES
    \* ---- collectSignalkData (signalkReader.js) ----
    aggPc,              \* "idle" | "loop" | "done": position in collectSignalkData
    samples,            \* the `samples` argument
    stationId,          \* the `stationId` argument (a string)
    sampleIdx,          \* the loop counter i
    collectedSamples,   \* the array collectedSamples
    avgData,            \* the result of averageSamples (NullRec before it ran)
    collectResult,      \* what collectSignalkData returned (NullRec for null)
    \* ---- generateBbxxReport (weatherReport.js) ----
    encPc,              \* "idle" | "ready" | "done"
    obs,                \* the arguments of generateBbxxReport
    bbxx,               \* the string it returned
    \* ---- validateAndDecodeBbxx (validate_bbxx.js) ----
    decPc,              \* "idle" | "ready" | "done"
    bbxxMessage,        \* the argument of validateAndDecodeBbxx
    decoded,            \* what it returned
    \* ---- the plugin (index.js) ----
    logger,             \* "undefined" | "open" | "null": the variable `logger`
    intervalId,         \* the variable intervalId: Null or the handle of the interval
    lastReport,         \* the variable lastReport (NullRec for null)
    pluginStarted,      \* the variable pluginStarted
    options,            \* the options of the last start() that took effect
    startCount,         \* how many start() calls took effect; numbers the timers
    timers,             \* the timers armed in the event loop, with the options they closed over
    tasks,              \* the suspended calls of generateReport
    signalkApp,         \* the `app` of module.exports(app): what getSelfPath returns now
    submissions,        \* the calls of sendSignalkData so far, posted or only logged
    httpResponse,       \* the last response of the router (NullRec before any)
    failures,           \* rejections of generateReport and unhandled rejections so far
    \* ---- one call of a helper function of signalkReader.js or weatherReport.js ----
    fnPc,               \* "idle" | "called" | "returned"
    fnName,             \* the function called
    fnArgs,             \* its arguments, in order
    fnResult            \* what it returned

aggVars == <<aggPc, samples, stationId, sampleIdx, collectedSamples, avgData, collectResult>>
encVars == <<encPc, obs, bbxx>>
decVars == <<decPc, bbxxMessage, decoded>>
pluginVars ==
    <<logger, intervalId, lastReport, pluginStarted, options, startCount, timers, tasks,
      signalkApp, submissions, httpResponse, failures>>
fnVars == <<fnPc, fnName, fnArgs, fnResult>>
vars == <<aggVars, encVars, decVars, pluginVars, fnVars>>

-----------------------------------------------------------------------------
(* JavaScript values *)

Null == [tag |-> "null", v |-> 0]
Undefined == [tag |-> "undefined", v |-> 0]
NaN == [tag |-> "NaN", v |-> 0]
Num(n) == [tag |-> "num", v |-> n]
IsNum(x) == x.tag = "num"
\* x === null
IsNull(x) == x.tag = "null"

\* a record that stands for the JavaScript value null where an object is expected
NullRec == [isNull |-> TRUE]

-----------------------------------------------------------------------------
(* Fixed-point arithmetic *)

Abs(n) == IF n < 0 THEN -n ELSE n

\* a / b rounded to the nearest unit (b > 0)
Round(a, b) == (a + (b \div 2)) \div b

\* JavaScript's % : the remainder has the sign of the dividend
JsRem(a, b) == IF a >= 0 THEN a % b ELSE -((-a) % b)

\* the normalisation read differently: x % 360 alone, which keeps the sign of x
Rem360(x) == JsRem(x, 360000)

\* ((x % 360) + 360) % 360, x in thousandths of a degree
Norm360(x) == JsRem(JsRem(x, 360000) + 360000, 360000)

RECURSIVE SqrtIter(_, _, _)
SqrtIter(n, lo, hi) ==
    IF lo >= hi THEN lo
    ELSE LET mid == (lo + hi + 1) \div 2
         IN  IF mid * mid <= n THEN SqrtIter(n, mid, hi) ELSE SqrtIter(n, lo, mid - 1)

\* Math.sqrt on a non-negative integer (floor)
Sqrt(n) == SqrtIter(n, 0, 46340)

\* sin of 0..90 whole degrees, in ten-thousandths
SinTab ==
    << 0, 175, 349, 523, 698, 872, 1045, 1219, 1392, 1564,
       1736, 1908, 2079, 2250, 2419, 2588, 2756, 2924, 3090, 3256,
       3420, 3584, 3746, 3907, 4067, 4226, 4384, 4540, 4695, 4848,
       5000, 5150, 5299, 5446, 5592, 5736, 5878, 6018, 6157, 6293,
       6428, 6561, 6691, 6820, 6947, 7071, 7193, 7314, 7431, 7547,
       7660, 7771, 7880, 7986, 8090, 8192, 8290, 8387, 8480, 8572,
       8660, 8746, 8829, 8910, 8988, 9063, 9135, 9205, 9272, 9336,
       9397, 9455, 9511, 9563, 9613, 9659, 9703, 9744, 9781, 9816,
       9848, 9877, 9903, 9925, 9945, 9962, 9976, 9986, 9994, 9998,
       10000 >>

\* sin of an angle in 0..90000 thousandths of a degree (linear between degrees)
SinQ(a) ==
    LET d == a \div 1000
        f == a % 1000
    IN  IF f = 0 THEN SinTab[d + 1]
        ELSE SinTab[d + 1] + Round((SinTab[d + 2] - SinTab[d + 1]) * f, 1000)

\* Math.sin(a * Math.PI / 180), a in thousandths of a degree
Sin(a) ==
    LET m == a % 360000
    IN  IF m <= 90000 THEN SinQ(m)
        ELSE IF m <= 180000 THEN SinQ(180000 - m)
        ELSE IF m <= 270000 THEN -SinQ(m - 180000)
        ELSE -SinQ(360000 - m)

\* Math.cos(a * Math.PI / 180)
Cos(a) == Sin(a + 90000)

\* the angle of (ax, ay), ax > 0, ay > 0, in thousandths of a degree
AtanQ(ay, ax) ==
    LET cross(d) == ay * SinTab[91 - d] - ax * SinTab[d + 1]
        d0 == CHOOSE d \in 0..89 : cross(d) >= 0 /\ cross(d + 1) < 0
    IN  d0 * 1000 + ((cross(d0) * 100) \div (cross(d0) - cross(d0 + 1))) * 10

\* Math.atan2(y, x) * 180 / Math.PI, in thousandths of a degree
Atan2(y, x) ==
    IF y = 0 THEN (IF x >= 0 THEN 0 ELSE 180000)
    ELSE IF x = 0 THEN (IF y > 0 THEN 90000 ELSE -90000)
    ELSE LET q == AtanQ(Abs(y), Abs(x))
         IN  IF x > 0 THEN (IF y > 0 THEN q ELSE -q)
             ELSE (IF y > 0 THEN 180000 - q ELSE q - 180000)

\* sum of a sequence of integers (Array.prototype.reduce with +)
RECURSIVE SumSeq(_)
SumSeq(s) == IF s = <<>> THEN 0 ELSE s[1] + SumSeq(Tail(s))

-----------------------------------------------------------------------------
(* Strings: sequences of one-character strings *)

DigitChars == <<"0", "1", "2", "3", "4", "5", "6", "7", "8", "9">>

RECURSIVE NatToStr(_)
NatToStr(n) ==
    IF n < 10 THEN <<DigitChars[n + 1]>>
    ELSE NatToStr(n \div 10) \o <<DigitChars[(n % 10) + 1]>>

\* Number.prototype.toString of an integer
ToStr(n) == IF n < 0 THEN <<"-">> \o NatToStr(-n) ELSE NatToStr(n)

RECURSIVE Zeros(_)
Zeros(k) == IF k <= 0 THEN <<>> ELSE <<"0">> \o Zeros(k - 1)

\* String.prototype.padStart(width, '0'): never truncates
PadStart(s, width) == Zeros(width - Len(s)) \o s

\* Math.round read differently: the fraction is dropped
MathFloor(x, unit) == x \div unit

\* Math.round(x / unit) for x in fixed point: halves round towards +infinity
MathRound(x, unit) == (x + (unit \div 2)) \div unit

-----------------------------------------------------------------------------
(* weatherReport.js *)

\* the quadrant rule read differently: the equator is in no northern quadrant east of
\* Greenwich
getBbxxQuadrantStrictNorth(lat, lon) ==
    IF lat > 0 /\ lon >= 0 THEN 1
    ELSE IF lat < 0 /\ lon >= 0 THEN 3
    ELSE IF lat < 0 /\ lon < 0 THEN 5
    ELSE IF lat >= 0 /\ lon < 0 THEN 7
    ELSE 9

getBbxxQuadrant(lat, lon) ==
    IF lat >= 0 /\ lon >= 0 THEN 1
    ELSE IF lat < 0 /\ lon >= 0 THEN 3
    ELSE IF lat < 0 /\ lon < 0 THEN 5
    ELSE IF lat >= 0 /\ lon < 0 THEN 7
    ELSE 9

\* `${DD}${HH}4`
dayHourGroup(utcTime) ==
    PadStart(ToStr(utcTime.day), 2) \o PadStart(ToStr(utcTime.hour), 2) \o <<"4">>

\* `99${Math.round(Math.abs(lat) * 10).toString().padStart(3, '0')}`
latCodeGroup(lat) == <<"9", "9">> \o PadStart(ToStr(MathRound(Abs(lat), 100)), 3)

\* `${quadrant}${Math.round(Math.abs(lon) * 10).toString().padStart(4, '0')}`
lonCodeGroup(lat, lon) ==
    ToStr(getBbxxQuadrant(lat, lon)) \o PadStart(ToStr(MathRound(Abs(lon), 100)), 4)

precipitationGroup == <<"4", "3", "/", "/", "/">>

\* trueWindSpeed < 100 ? Math.round(trueWindSpeed).toString().padStart(2, '0') : "//"
windSpeedCode(trueWindSpeed) ==
    IF trueWindSpeed < 100000 THEN PadStart(ToStr(MathRound(trueWindSpeed, 1000)), 2)
    ELSE <<"/", "/">>

\* Math.round(trueWindDirection / 10.0).toString().padStart(2, '0')
windDirCode(trueWindDirection) == PadStart(ToStr(MathRound(trueWindDirection, 10000)), 2)

cloudWindGroup(trueWindDirection, trueWindSpeed) ==
    IF ~IsNull(trueWindDirection) /\ ~IsNull(trueWindSpeed)
    THEN <<"/">> \o windDirCode(trueWindDirection.v) \o windSpeedCode(trueWindSpeed.v)
    ELSE <<"/", "/", "/", "/", "/">>

tempCodeGroup(waterTemp) ==
    IF ~IsNull(waterTemp)
    THEN LET tempAbs == Abs(waterTemp.v)
             sign == IF waterTemp.v >= 0 THEN "4" ELSE "5"
             tempTenths == MathRound(tempAbs, 100)
         IN  <<"0", sign>> \o PadStart(ToStr(tempTenths), 3)
    ELSE <<"0", "/", "/", "/", "/">>

\* d////
Omitted(d) == <<d, "/", "/", "/", "/">>

\* the groups of the template literal between the wind group and the marker
section1Omitted == <<Omitted("1"), Omitted("2"), Omitted("4"), Omitted("5"), Omitted("7"), Omitted("8")>>

section2Marker == <<"2", "2", "2", "/", "/">>

\* section2Omitted as the format table has it: six groups, without 8////
section2OmittedSix ==
    <<Omitted("0"), Omitted("2"), Omitted("3"), Omitted("4"), Omitted("5"), Omitted("6")>>

\* the groups of the template literal between the temperature group and ICE
section2Omitted ==
    <<Omitted("0"), Omitted("2"), Omitted("3"), Omitted("4"), Omitted("5"), Omitted("6"), Omitted("8")>>

iceGroup == <<"I", "C", "E">>

terminatorGroup == <<"/", "/", "/", "/", "/", "=">>

\* the groups of the report, in the order of the template literal
bbxxGroups(trueWindDirection, trueWindSpeed, lat, lon, utcTime, station, waterTemp) ==
    << <<"B", "B", "X", "X">>, station, dayHourGroup(utcTime), latCodeGroup(lat),
       lonCodeGroup(lat, lon), precipitationGroup,
       cloudWindGroup(trueWindDirection, trueWindSpeed) >>
    \o section1Omitted
    \o << section2Marker, tempCodeGroup(waterTemp) >>
    \o section2Omitted
    \o << iceGroup, terminatorGroup >>

\* the template literal puts one space between consecutive groups
RECURSIVE JoinSpace(_)
JoinSpace(groups) ==
    IF groups = <<>> THEN <<>>
    ELSE IF Len(groups) = 1 THEN groups[1]
    ELSE groups[1] \o <<" ">> \o JoinSpace(Tail(groups))

generateBbxxReport(trueWindDirection, trueWindSpeed, lat, lon, utcTime, station, waterTemp) ==
    JoinSpace(bbxxGroups(trueWindDirection, trueWindSpeed, lat, lon, utcTime, station, waterTemp))

-----------------------------------------------------------------------------
(* signalkReader.js *)

mpsToKnots(mps) ==
    IF mps.tag = "null" \/ mps.tag = "undefined" THEN Null
    ELSE IF mps.tag = "NaN" THEN NaN
    ELSE Num(mps.v + Round(mps.v * 94384, 100000))

radiansToDegrees(rad) ==
    IF rad.tag = "null" \/ rad.tag = "undefined" THEN Null
    ELSE IF rad.tag = "NaN" THEN NaN
    ELSE Num(Round(rad.v * 180000, 3142))

\* Array.prototype.filter(v => v !== null)
NonNull(values) == SelectSeq(values, LAMBDA v : ~IsNull(v))

\* values.reduce((sum, val) => sum + val, 0) / values.length, values not empty
arithmeticMean(values) ==
    IF \E i \in 1..Len(values) : ~IsNum(values[i]) THEN NaN
    ELSE Num(Round(SumSeq([i \in 1..Len(values) |-> values[i].v]), Len(values)))

\* averageAngles read differently: only the empty array gives null
averageAnglesUnlessEmpty(angles) ==
    IF Len(angles) = 0 THEN Null
    ELSE IF \E i \in 1..Len(angles) : ~IsNum(angles[i]) THEN NaN
    ELSE LET meanSin == Round(SumSeq([i \in 1..Len(angles) |-> Sin(angles[i].v)]), Len(angles))
             meanCos == Round(SumSeq([i \in 1..Len(angles) |-> Cos(angles[i].v)]), Len(angles))
         IN  Num(Norm360(Atan2(meanSin, meanCos)))

\* averageAngles read differently: the arithmetic mean of the angles
averageAnglesArithmetic(angles) ==
    IF Len(angles) = 0 \/ (\E i \in 1..Len(angles) : angles[i].tag \in {"null", "undefined"})
    THEN Null
    ELSE IF \E i \in 1..Len(angles) : ~IsNum(angles[i]) THEN NaN
    ELSE Num(Norm360(Round(SumSeq([i \in 1..Len(angles) |-> angles[i].v]), Len(angles))))

averageAngles(angles) ==
    IF Len(angles) = 0 \/ (\E i \in 1..Len(angles) : angles[i].tag \in {"null", "undefined"})
    THEN Null
    ELSE IF \E i \in 1..Len(angles) : ~IsNum(angles[i]) THEN NaN
    ELSE LET meanSin == Round(SumSeq([i \in 1..Len(angles) |-> Sin(angles[i].v)]), Len(angles))
             meanCos == Round(SumSeq([i \in 1..Len(angles) |-> Cos(angles[i].v)]), Len(angles))
         IN  Num(Norm360(Atan2(meanSin, meanCos)))

\* Math.sqrt(aws * aws + sog * sog - 2 * aws * sog * Math.cos(awaRad))
trueWindSpeedOf(awa, aws, sog) ==
    Sqrt(aws * aws + sog * sog - ((2 * aws * sog) \div 10000) * Cos(awa))

\* returns the pair [twDir, twSpeed]
calculateTrueWind(awa, aws, trueHeading, sog) ==
    IF IsNull(awa) \/ IsNull(aws) \/ IsNull(trueHeading) \/ IsNull(sog)
    THEN <<Null, Null>>
    ELSE <<Num(Norm360(trueHeading.v + awa.v)), Num(trueWindSpeedOf(awa.v, aws.v, sog.v))>>

\* the Kelvin heuristic read differently: a reading of exactly 200 is converted too
waterTempOfAtLeast200(waterTempKelvin) ==
    IF ~IsNull(waterTempKelvin) /\ IsNum(waterTempKelvin) /\ waterTempKelvin.v >= 200000
    THEN Num(waterTempKelvin.v - 273150)
    ELSE waterTempKelvin

\* the Kelvin heuristic of collectSample
waterTempOf(waterTempKelvin) ==
    IF ~IsNull(waterTempKelvin) /\ IsNum(waterTempKelvin) /\ waterTempKelvin.v > 200000
    THEN Num(waterTempKelvin.v - 273150)
    ELSE waterTempKelvin

\* app.getSelfPath either throws (app.throws) or returns app.paths[path]
collectSample(app) ==
    IF app.throws THEN NullRec
    ELSE LET r == app.paths
             awa == radiansToDegrees(r.angleApparent)
             aws == mpsToKnots(r.speedApparent)
             heading_deg == radiansToDegrees(r.headingMagnetic)
             heading_true_deg == radiansToDegrees(r.headingTrue)
             true_heading_deg ==
                 IF ~IsNull(heading_true_deg) THEN heading_true_deg
                 ELSE IF ~IsNull(heading_deg) THEN heading_deg
                 ELSE Null
             sog_knots == mpsToKnots(r.speedOverGround)
             tw == IF ~IsNull(awa) /\ ~IsNull(aws) /\ ~IsNull(true_heading_deg) /\ ~IsNull(sog_knots)
                   THEN calculateTrueWind(awa, aws, true_heading_deg, sog_knots)
                   ELSE <<Null, Null>>
         IN  [ heading_rad |-> r.headingMagnetic,
               heading_true_rad |-> r.headingTrue,
               magnetic_variation_rad |-> r.magneticVariation,
               sog_mps |-> r.speedOverGround,
               lat |-> r.latitude,
               lon |-> r.longitude,
               awa_rad |-> r.angleApparent,
               aws_mps |-> r.speedApparent,
               water_temp |-> waterTempOf(r.waterTemperature),
               awa |-> awa,
               aws |-> aws,
               heading_deg |-> heading_deg,
               heading_true_deg |-> heading_true_deg,
               magnetic_variation_deg |-> radiansToDegrees(r.magneticVariation),
               true_heading_deg |-> true_heading_deg,
               sog_knots |-> sog_knots,
               true_wind_dir |-> tw[1],
               true_wind_speed |-> tw[2] ]

\* the fields averageSamples averages
averagedFields ==
    { "sog_knots", "water_temp", "aws", "heading_deg", "magnetic_variation_deg",
      "true_heading_deg", "awa", "true_wind_dir", "true_wind_speed" }

\* fieldValues read differently: a sample counts only if none of its fields is null
fieldValuesOfCompleteSamples(validSamples, field) ==
    LET complete == SelectSeq(validSamples, LAMBDA s : \A f \in averagedFields : ~IsNull(s[f]))
    IN  [i \in 1..Len(complete) |-> complete[i][field]]

\* validSamples.map(s => s[field]).filter(v => v !== null)
fieldValues(validSamples, field) ==
    NonNull([i \in 1..Len(validSamples) |-> validSamples[i][field]])

\* the numeric average read differently: 0 where no sample has the field
averageNumericOrZero(validSamples, field) ==
    LET values == fieldValues(validSamples, field)
    IN  IF Len(values) > 0 THEN arithmeticMean(values) ELSE Num(0)

\* one pass of the numericFields loop, and of the true wind speed block
averageNumeric(validSamples, field) ==
    LET values == fieldValues(validSamples, field)
    IN  IF Len(values) > 0 THEN arithmeticMean(values) ELSE Null

\* one pass of the angleFields loop
averageAngle(validSamples, field) ==
    LET values == fieldValues(validSamples, field)
    IN  IF Len(values) > 0 THEN averageAngles(values) ELSE Null

\* the position read differently: taken from the first valid sample
earliestSample(validSamples) == validSamples[1]

\* validSamples[validSamples.length - 1]: the sample the position is taken from
mostRecentSample(validSamples) == validSamples[Len(validSamples)]

\* averageSamples read differently: true wind resolved once, from the averaged inputs
averageSamplesResolveOnce(smpls) ==
    IF Len(smpls) = 0 THEN NullRec
    ELSE LET validSamples == SelectSeq(smpls, LAMBDA s : s # NullRec)
             tw == calculateTrueWind(averageAngle(validSamples, "awa"),
                                     averageNumeric(validSamples, "aws"),
                                     averageAngle(validSamples, "true_heading_deg"),
                                     averageNumeric(validSamples, "sog_knots"))
         IN  IF Len(validSamples) = 0 THEN NullRec
             ELSE [ sog_knots |-> averageNumeric(validSamples, "sog_knots"),
                    water_temp |-> averageNumeric(validSamples, "water_temp"),
                    aws |-> averageNumeric(validSamples, "aws"),
                    heading_deg |-> averageAngle(validSamples, "heading_deg"),
                    magnetic_variation_deg |-> averageAngle(validSamples, "magnetic_variation_deg"),
                    true_heading_deg |-> averageAngle(validSamples, "true_heading_deg"),
                    awa |-> averageAngle(validSamples, "awa"),
                    true_wind_dir |-> tw[1],
                    true_wind_speed |-> tw[2],
                    lat |-> mostRecentSample(validSamples).lat,
                    lon |-> mostRecentSample(validSamples).lon ]

averageSamples(smpls) ==
    IF Len(smpls) = 0 THEN NullRec
    ELSE LET validSamples == SelectSeq(smpls, LAMBDA s : s # NullRec)
         IN  IF Len(validSamples) = 0 THEN NullRec
             ELSE [ sog_knots |-> averageNumeric(validSamples, "sog_knots"),
                    water_temp |-> averageNumeric(validSamples, "water_temp"),
                    aws |-> averageNumeric(validSamples, "aws"),
                    heading_deg |-> averageAngle(validSamples, "heading_deg"),
                    magnetic_variation_deg |-> averageAngle(validSamples, "magnetic_variation_deg"),
                    true_heading_deg |-> averageAngle(validSamples, "true_heading_deg"),
                    awa |-> averageAngle(validSamples, "awa"),
                    true_wind_dir |-> averageAngle(validSamples, "true_wind_dir"),
                    true_wind_speed |-> averageNumeric(validSamples, "true_wind_speed"),
                    lat |-> mostRecentSample(validSamples).lat,
                    lon |-> mostRecentSample(validSamples).lon ]

\* missingData read differently: water temperature is required too
missingDataWithWaterTemp(avg) ==
    (IF IsNull(avg.lat) \/ IsNull(avg.lon) THEN {"position (lat/lon)"} ELSE {})
    \cup (IF IsNull(avg.true_heading_deg) THEN {"heading"} ELSE {})
    \cup (IF IsNull(avg.true_wind_dir) \/ IsNull(avg.true_wind_speed)
          THEN {"wind (direction/speed)"} ELSE {})
    \cup (IF IsNull(avg.sog_knots) THEN {"speed over ground"} ELSE {})
    \cup (IF IsNull(avg.water_temp) THEN {"water temperature"} ELSE {})

\* the completeness check of collectSignalkData: the list missingData
missingData(avg) ==
    (IF IsNull(avg.lat) \/ IsNull(avg.lon) THEN {"position (lat/lon)"} ELSE {})
    \cup (IF IsNull(avg.true_heading_deg) THEN {"heading"} ELSE {})
    \cup (IF IsNull(avg.true_wind_dir) \/ IsNull(avg.true_wind_speed)
          THEN {"wind (direction/speed)"} ELSE {})
    \cup (IF IsNull(avg.sog_knots) THEN {"speed over ground"} ELSE {})

\* what collectSignalkData returns once its loop has collected `collected`
collectOutcome(collected, station, utcTime) ==
    IF Len(collected) = 0 THEN NullRec
    ELSE LET avg == averageSamples(collected)
         IN  IF avg = NullRec THEN NullRec
             ELSE IF missingData(avg) # {} THEN NullRec
             ELSE avg @@ [ utc_time |-> utcTime,
                           bbxx |-> generateBbxxReport(avg.true_wind_dir, avg.true_wind_speed,
                                                       avg.lat.v, avg.lon.v, utcTime, station,
                                                       avg.water_temp) ]

-----------------------------------------------------------------------------
(* validate_bbxx.js *)

\* String.prototype.split(' '): the parts between consecutive spaces, empty ones kept
SplitSpace(s) ==
    LET spaces == {i \in 1..Len(s) : s[i] = " "}
        n == Cardinality(spaces)
        \* the position of the k-th space; 0 before the first part, Len(s) + 1 after the last
        sep == [k \in 0..(n + 1) |->
                   IF k = 0 THEN 0
                   ELSE IF k = n + 1 THEN Len(s) + 1
                   ELSE CHOOSE i \in spaces : Cardinality({j \in spaces : j < i}) = k - 1]
    IN  [k \in 1..(n + 1) |-> SubSeq(s, sep[k - 1] + 1, sep[k] - 1)]

\* String.prototype.substring(from, to), 0-based, `to` excluded, clamped to the length
Substring(s, from, to) ==
    LET hi == IF to > Len(s) THEN Len(s) ELSE to
    IN  IF from >= hi THEN <<>> ELSE SubSeq(s, from + 1, hi)

\* String.prototype.startsWith
StartsWith(s, prefix) == Len(s) >= Len(prefix) /\ SubSeq(s, 1, Len(prefix)) = prefix

\* String.prototype.endsWith('=')
EndsWithEquals(s) == Len(s) > 0 /\ s[Len(s)] = "="

IsDigit(c) == \E d \in 1..10 : DigitChars[d] = c

DigitValue(c) == (CHOOSE d \in 1..10 : DigitChars[d] = c) - 1

\* the value of the longest prefix of digits of s from position i on, given the
\* value `acc` of the digits before i
RECURSIVE DigitsPrefix(_, _, _)
DigitsPrefix(s, i, acc) ==
    IF i > Len(s) \/ ~IsDigit(s[i]) THEN acc
    ELSE DigitsPrefix(s, i + 1, acc * 10 + DigitValue(s[i]))

\* parseInt(s): an optional sign, then the longest prefix of digits; NaN without one
parseInt(s) ==
    LET signed == Len(s) > 0 /\ s[1] \in {"-", "+"}
        start == IF signed THEN 2 ELSE 1
    IN  IF start > Len(s) \/ ~IsDigit(s[start]) THEN NaN
        ELSE IF signed /\ s[1] = "-" THEN Num(-DigitsPrefix(s, start, 0))
        ELSE Num(DigitsPrefix(s, start, 0))

\* x / 10.0 in thousandths; NaN stays NaN
TenthsToValue(x) == IF IsNum(x) THEN Num(x.v * 100) ELSE x

\* -x
Negate(x) == IF IsNum(x) THEN Num(-x.v) ELSE x

\* x < n and x > n on JavaScript numbers: false when x is NaN
JsLt(x, n) == IsNum(x) /\ x.v < n
JsGt(x, n) == IsNum(x) /\ x.v > n
JsGe(x, n) == IsNum(x) /\ x.v >= n

\* Array.prototype.findIndex(p => p === '222//') as a 1-based index, 0 for -1
FindMarker(parts) ==
    IF \E i \in 1..Len(parts) : parts[i] = section2Marker
    THEN CHOOSE i \in 1..Len(parts) :
             parts[i] = section2Marker /\ \A j \in 1..(i - 1) : parts[j] # section2Marker
    ELSE 0

\* 3. day/hour/wind indicator: [ok, fields, err, warn]
decodeDayHour(g) ==
    IF Len(g) = 5
    THEN LET day == parseInt(Substring(g, 0, 2))
             hour == parseInt(Substring(g, 2, 4))
         IN  [ ok |-> TRUE, day |-> day, hour |-> hour,
               windIndicator |-> parseInt(Substring(g, 4, 5)),
               err |-> {},
               warn |-> IF JsLt(day, 1) \/ JsGt(day, 31) \/ JsLt(hour, 0) \/ JsGt(hour, 23)
                        THEN {"Day or hour out of valid range"} ELSE {} ]
    ELSE [ ok |-> FALSE, day |-> Undefined, hour |-> Undefined, windIndicator |-> Undefined,
           err |-> {"Invalid day/hour/wind format"}, warn |-> {} ]

\* 4. latitude 99LLL
decodeLatitude(g) ==
    IF Len(g) = 5 /\ StartsWith(g, <<"9", "9">>)
    THEN LET latitude == TenthsToValue(parseInt(Substring(g, 2, 5)))
             bad == JsLt(latitude, 0) \/ JsGt(latitude, 90000)
         IN  [ ok |-> ~bad, latitude |-> latitude,
               err |-> IF bad THEN {"Latitude out of valid range (0-90)"} ELSE {} ]
    ELSE [ ok |-> FALSE, latitude |-> Undefined, err |-> {"Invalid latitude format"} ]

\* 5. longitude QLLLL
decodeLongitude(g) ==
    IF Len(g) = 5
    THEN LET quadrant == parseInt(Substring(g, 0, 1))
             lonTenths == parseInt(Substring(g, 1, 5))
             longitude == TenthsToValue(lonTenths)
             actualLongitude ==
                 IF quadrant = Num(5) \/ quadrant = Num(7) THEN Negate(longitude)
                 ELSE longitude
             badQuadrant == quadrant \notin {Num(1), Num(3), Num(5), Num(7)}
             badRange == IsNum(actualLongitude) /\ Abs(actualLongitude.v) > 180000
         IN  [ ok |-> ~badQuadrant /\ ~badRange,
               quadrant |-> quadrant, longitudeTenths |-> lonTenths,
               longitude |-> longitude, actualLongitude |-> actualLongitude,
               err |-> (IF badQuadrant THEN {"Invalid quadrant"} ELSE {})
                       \cup (IF badRange THEN {"Longitude out of valid range"} ELSE {}) ]
    ELSE [ ok |-> FALSE, quadrant |-> Undefined, longitudeTenths |-> Undefined,
           longitude |-> Undefined, actualLongitude |-> Undefined,
           err |-> {"Invalid longitude format"} ]

\* the wind group read differently: an omitted wind invalidates the message
decodeWindRequired(g) ==
    IF Len(g) = 5 /\ StartsWith(g, <<"/">>)
    THEN LET windDirTens == Substring(g, 1, 3)
             windSpeed == Substring(g, 3, 5)
         IN  IF windDirTens # <<"/", "/">> /\ windSpeed # <<"/", "/">>
             THEN LET dirTens == parseInt(windDirTens)
                      windDirection == IF IsNum(dirTens) THEN Num(dirTens.v * 10000) ELSE dirTens
                      pSpeed == parseInt(windSpeed)
                      windSpeedKnots == IF IsNum(pSpeed) THEN Num(pSpeed.v * 1000) ELSE pSpeed
                      bad == JsLt(windDirection, 0) \/ JsGt(windDirection, 360000)
                  IN  [ ok |-> ~bad, omitted |-> FALSE,
                        windDirection |-> windDirection, windSpeed |-> windSpeedKnots,
                        err |-> IF bad THEN {"Wind direction out of valid range"} ELSE {},
                        warn |-> IF JsLt(windSpeedKnots, 0) \/ JsGe(windSpeedKnots, 100000)
                                 THEN {"Wind speed unusual"} ELSE {} ]
             ELSE [ ok |-> FALSE, omitted |-> TRUE,
                    windDirection |-> Undefined, windSpeed |-> Undefined,
                    err |-> {"Wind data omitted"}, warn |-> {} ]
    ELSE [ ok |-> FALSE, omitted |-> FALSE,
           windDirection |-> Undefined, windSpeed |-> Undefined,
           err |-> {"Invalid wind group format"}, warn |-> {} ]

\* 7. wind group /ddff
decodeWind(g) ==
    IF Len(g) = 5 /\ StartsWith(g, <<"/">>)
    THEN LET windDirTens == Substring(g, 1, 3)
             windSpeed == Substring(g, 3, 5)
         IN  IF windDirTens # <<"/", "/">> /\ windSpeed # <<"/", "/">>
             THEN LET dirTens == parseInt(windDirTens)
                      windDirection == IF IsNum(dirTens) THEN Num(dirTens.v * 10000) ELSE dirTens
                      pSpeed == parseInt(windSpeed)
                      windSpeedKnots == IF IsNum(pSpeed) THEN Num(pSpeed.v * 1000) ELSE pSpeed
                      bad == JsLt(windDirection, 0) \/ JsGt(windDirection, 360000)
                  IN  [ ok |-> ~bad, omitted |-> FALSE,
                        windDirection |-> windDirection, windSpeed |-> windSpeedKnots,
                        err |-> IF bad THEN {"Wind direction out of valid range"} ELSE {},
                        warn |-> IF JsLt(windSpeedKnots, 0) \/ JsGe(windSpeedKnots, 100000)
                                 THEN {"Wind speed unusual"} ELSE {} ]
             ELSE [ ok |-> TRUE, omitted |-> TRUE,
                    windDirection |-> Undefined, windSpeed |-> Undefined,
                    err |-> {}, warn |-> {} ]
    ELSE [ ok |-> FALSE, omitted |-> FALSE,
           windDirection |-> Undefined, windSpeed |-> Undefined,
           err |-> {"Invalid wind group format"}, warn |-> {} ]

\* section 2 read differently: a message without the marker is not an error
decodeSection2Optional(parts) ==
    LET section2Index == FindMarker(parts)
    IN  IF section2Index # 0
        THEN IF Len(parts) > section2Index
             THEN LET g == parts[section2Index + 1]
                  IN  IF Len(g) = 5 /\ StartsWith(g, <<"0">>)
                      THEN LET tempSign == Substring(g, 1, 2)
                               tempValue == Substring(g, 2, 5)
                           IN  IF tempSign = <<"4">> \/ tempSign = <<"5">>
                               THEN LET temperature == TenthsToValue(parseInt(tempValue))
                                        actualTemp == IF tempSign = <<"4">> THEN temperature
                                                      ELSE Negate(temperature)
                                    IN  [ ok |-> TRUE, hasTempGroup |-> TRUE, tempGroup |-> g,
                                          waterTemperature |-> actualTemp,
                                          outcome |-> "decoded", err |-> {},
                                          warn |-> IF JsLt(actualTemp, -5000) \/ JsGt(actualTemp, 40000)
                                                   THEN {"Water temperature outside typical range"}
                                                   ELSE {} ]
                               ELSE [ ok |-> TRUE, hasTempGroup |-> TRUE, tempGroup |-> g,
                                      waterTemperature |-> Undefined,
                                      outcome |-> "unusual sign indicator", err |-> {},
                                      warn |-> {"Water Temperature: unusual sign indicator"} ]
                      ELSE IF g = <<"0", "/", "/", "/", "/">>
                      THEN [ ok |-> TRUE, hasTempGroup |-> TRUE, tempGroup |-> g,
                             waterTemperature |-> Undefined,
                             outcome |-> "omitted", err |-> {}, warn |-> {} ]
                      ELSE [ ok |-> FALSE, hasTempGroup |-> TRUE, tempGroup |-> g,
                             waterTemperature |-> Undefined,
                             outcome |-> "invalid format",
                             err |-> {"Invalid water temperature format"}, warn |-> {} ]
             ELSE [ ok |-> TRUE, hasTempGroup |-> FALSE, tempGroup |-> <<>>,
                    waterTemperature |-> Undefined, outcome |-> "no group",
                    err |-> {}, warn |-> {} ]
        ELSE [ ok |-> TRUE, hasTempGroup |-> FALSE, tempGroup |-> <<>>,
               waterTemperature |-> Undefined, outcome |-> "no section 2",
               err |-> {}, warn |-> {"Missing section 2 identifier (222//)"} ]

\* 9 and 10. section 2 marker and water temperature; tempGroup is <<>> when not set
decodeSection2(parts) ==
    LET section2Index == FindMarker(parts)
    IN  IF section2Index # 0
        THEN IF Len(parts) > section2Index
             THEN LET g == parts[section2Index + 1]
                  IN  IF Len(g) = 5 /\ StartsWith(g, <<"0">>)
                      THEN LET tempSign == Substring(g, 1, 2)
                               tempValue == Substring(g, 2, 5)
                           IN  IF tempSign = <<"4">> \/ tempSign = <<"5">>
                               THEN LET temperature == TenthsToValue(parseInt(tempValue))
                                        actualTemp == IF tempSign = <<"4">> THEN temperature
                                                      ELSE Negate(temperature)
                                    IN  [ ok |-> TRUE, hasTempGroup |-> TRUE, tempGroup |-> g,
                                          waterTemperature |-> actualTemp,
                                          outcome |-> "decoded", err |-> {},
                                          warn |-> IF JsLt(actualTemp, -5000) \/ JsGt(actualTemp, 40000)
                                                   THEN {"Water temperature outside typical range"}
                                                   ELSE {} ]
                               ELSE [ ok |-> TRUE, hasTempGroup |-> TRUE, tempGroup |-> g,
                                      waterTemperature |-> Undefined,
                                      outcome |-> "unusual sign indicator", err |-> {},
                                      warn |-> {"Water Temperature: unusual sign indicator"} ]
                      ELSE IF g = <<"0", "/", "/", "/", "/">>
                      THEN [ ok |-> TRUE, hasTempGroup |-> TRUE, tempGroup |-> g,
                             waterTemperature |-> Undefined,
                             outcome |-> "omitted", err |-> {}, warn |-> {} ]
                      ELSE [ ok |-> FALSE, hasTempGroup |-> TRUE, tempGroup |-> g,
                             waterTemperature |-> Undefined,
                             outcome |-> "invalid format",
                             err |-> {"Invalid water temperature format"}, warn |-> {} ]
             ELSE [ ok |-> TRUE, hasTempGroup |-> FALSE, tempGroup |-> <<>>,
                    waterTemperature |-> Undefined, outcome |-> "no group",
                    err |-> {}, warn |-> {} ]
        ELSE [ ok |-> FALSE, hasTempGroup |-> FALSE, tempGroup |-> <<>>,
               waterTemperature |-> Undefined, outcome |-> "no section 2",
               err |-> {"Missing section 2 identifier (222//)"}, warn |-> {} ]

\* what validateAndDecodeBbxx returns, with the errors and warnings it prints:
\* the bare boolean false for fewer than 15 parts, else the object {isValid, analysis}
validateAndDecodeBbxx(message) ==
    LET parts == SplitSpace(message)
    IN  IF Len(parts) < 15
        THEN [ type |-> "boolean", value |-> FALSE,
               errors |-> {"Invalid BBXX format - insufficient parts"}, warnings |-> {} ]
        ELSE LET typeOk == parts[1] = <<"B", "B", "X", "X">>
                 dh == decodeDayHour(parts[3])
                 la == decodeLatitude(parts[4])
                 lo == decodeLongitude(parts[5])
                 precipOk == parts[6] = precipitationGroup
                 wi == decodeWind(parts[7])
                 s2 == decodeSection2(parts)
             IN  [ type |-> "object",
                   isValid |-> typeOk /\ dh.ok /\ la.ok /\ lo.ok /\ wi.ok /\ s2.ok,
                   analysis |->
                       [ messageType |-> parts[1],
                         stationId |-> parts[2],
                         dayHourWind |-> parts[3],
                         day |-> dh.day, hour |-> dh.hour, windIndicator |-> dh.windIndicator,
                         latitudeCode |-> parts[4],
                         latitude |-> la.latitude,
                         longitudeCode |-> parts[5],
                         quadrant |-> lo.quadrant,
                         longitudeTenths |-> lo.longitudeTenths,
                         longitude |-> lo.longitude,
                         actualLongitude |-> lo.actualLongitude,
                         precipitation |-> parts[6],
                         windGroup |-> parts[7],
                         windDirection |-> wi.windDirection,
                         windSpeed |-> wi.windSpeed,
                         tempGroup |-> s2.tempGroup,
                         waterTemperature |-> s2.waterTemperature ],
                   errors |-> (IF typeOk THEN {} ELSE {"Invalid message type, should be BBXX"})
                              \cup dh.err \cup la.err \cup lo.err \cup wi.err \cup s2.err,
                   warnings |-> dh.warn
                                \cup (IF precipOk THEN {} ELSE {"Precipitation non-standard"})
                                \cup wi.warn \cup s2.warn
                                \cup (IF EndsWithEquals(message) THEN {}
                                      ELSE {"Message should end with ="}) ]

-----------------------------------------------------------------------------
(* The environment of collectSignalkData: what app.getSelfPath returns *)

MaxSamples == 2

PathNames ==
    { "headingMagnetic", "headingTrue", "magneticVariation", "speedOverGround", "latitude",
      "longitude", "angleApparent", "speedApparent", "waterTemperature" }

\* heading 0, 5 m/s over ground, apparent wind 10 m/s at +0.785 rad, water 288.15 K
ReadingA ==
    [ headingMagnetic |-> Num(175), headingTrue |-> Num(0), magneticVariation |-> Num(0),
      speedOverGround |-> Num(5000), latitude |-> Num(28144), longitude |-> Num(-112742),
      angleApparent |-> Num(785), speedApparent |-> Num(10000),
      waterTemperature |-> Num(288150) ]

\* the same with the apparent wind on the other side
ReadingB == [ReadingA EXCEPT !.angleApparent = Num(-785)]

\* another vessel state: southern and eastern hemisphere, water already in Celsius
ReadingC ==
    [ headingMagnetic |-> Num(6109), headingTrue |-> Num(6196), magneticVariation |-> Num(87),
      speedOverGround |-> Num(2500), latitude |-> Num(-33900), longitude |-> Num(18400),
      angleApparent |-> Num(2356), speedApparent |-> Num(6000),
      waterTemperature |-> Num(22500) ]

AllNullReading == [p \in PathNames |-> Null]

Readings ==
    {ReadingA, ReadingB, ReadingC, AllNullReading}
    \cup {[ReadingA EXCEPT ![p] = Null] : p \in PathNames}
    \cup {[ReadingA EXCEPT !.headingTrue = Null, !.headingMagnetic = Null]}

Apps == {[throws |-> FALSE, paths |-> r] : r \in Readings}
        \cup {[throws |-> TRUE, paths |-> AllNullReading]}

UtcTimes == {[day |-> 15, hour |-> 14], [day |-> 1, hour |-> 0]}

StationIds == {<<"W", "X", "H", "9", "5", "5", "3">>}

-----------------------------------------------------------------------------
(* collectSignalkData as a process: one step per pass of its loop *)

encIdle == encPc = "idle" /\ obs = NullRec /\ bbxx = <<>>
decIdle == decPc = "idle" /\ bbxxMessage = <<>> /\ decoded = NullRec

\* no helper function called
fnIdle == fnPc = "idle" /\ fnName = "" /\ fnArgs = <<>> /\ fnResult = NullRec

\* the plugin as module.exports(app) leaves it: nothing started, no timer, no request
pluginIdle ==
    /\ logger = "undefined"
    /\ intervalId = Null
    /\ lastReport = NullRec
    /\ pluginStarted = FALSE
    /\ options = NullRec
    /\ startCount = 0
    /\ timers = {}
    /\ tasks = {}
    /\ signalkApp = [throws |-> FALSE, paths |-> ReadingA]
    /\ submissions = {}
    /\ httpResponse = NullRec
    /\ failures = {}

AggInit ==
    /\ aggPc = "loop"
    /\ samples \in 1..MaxSamples
    /\ stationId \in StationIds
    /\ sampleIdx = 0
    /\ collectedSamples = <<>>
    /\ avgData = NullRec
    /\ collectResult = NullRec
    /\ encIdle
    /\ decIdle
    /\ pluginIdle
    /\ fnIdle

\* one pass of the for loop: collectSample, skip a failed sample, push the others
CollectStep ==
    /\ aggPc = "loop"
    /\ sampleIdx < samples
    /\ \E app \in Apps :
          LET sample == collectSample(app)
          IN  collectedSamples' =
                  IF sample = NullRec THEN collectedSamples
                  ELSE Append(collectedSamples, sample)
    /\ sampleIdx' = sampleIdx + 1
    /\ UNCHANGED <<aggPc, samples, stationId, avgData, collectResult, encVars, decVars, pluginVars, fnVars>>

\* after the loop: average, check completeness, encode, return
CollectFinish ==
    /\ aggPc = "loop"
    /\ sampleIdx = samples
    /\ \E utcTime \in UtcTimes :
          /\ avgData' = (IF Len(collectedSamples) = 0 THEN NullRec
                         ELSE averageSamples(collectedSamples))
          /\ collectResult' = collectOutcome(collectedSamples, stationId, utcTime)
    /\ aggPc' = "done"
    /\ UNCHANGED <<samples, stationId, sampleIdx, collectedSamples, encVars, decVars, pluginVars, fnVars>>

AggNext == CollectStep \/ CollectFinish

SpecAgg == AggInit /\ [][AggNext]_vars

-----------------------------------------------------------------------------
(* generateBbxxReport applied to observations, and its output decoded *)

aggIdle ==
    /\ aggPc = "idle"
    /\ samples = 0
    /\ stationId = <<>>
    /\ sampleIdx = 0
    /\ collectedSamples = <<>>
    /\ avgData = NullRec
    /\ collectResult = NullRec

EncLats == {28144, -33900, 0, 90000}

EncLons == {-112742, 18400, 0, -179960}

EncWindDirs == {Num(0), Num(270000), Num(44971), Num(355000), Null}

EncWindSpeeds == {Num(0), Num(15000), Num(99499), Num(99500), Num(100000)}

\* raw environment.water.temperature readings; the encoder gets waterTempOf of them
EncRawWaterTemps ==
    {Null, Num(288150), Num(22500), Num(150000), Num(271650), Num(99949), Num(-40)}

Observations ==
    [ trueWindDirection : EncWindDirs, trueWindSpeed : EncWindSpeeds, lat : EncLats,
      lon : EncLons, utcTime : UtcTimes, stationId : StationIds,
      waterTemp : {waterTempOf(t) : t \in EncRawWaterTemps} ]

EncInit ==
    /\ encPc = "ready"
    /\ obs \in Observations
    /\ bbxx = <<>>
    /\ aggIdle
    /\ decIdle
    /\ pluginIdle
    /\ fnIdle

\* a call of generateBbxxReport
Encode ==
    /\ encPc = "ready"
    /\ bbxx' = generateBbxxReport(obs.trueWindDirection, obs.trueWindSpeed, obs.lat, obs.lon,
                                  obs.utcTime, obs.stationId, obs.waterTemp)
    /\ encPc' = "encoded"
    /\ UNCHANGED <<obs, aggVars, decVars, pluginVars, fnVars>>

\* the report handed to validateAndDecodeBbxx
DecodeReport ==
    /\ encPc = "encoded"
    /\ decPc = "idle"
    /\ bbxxMessage' = bbxx
    /\ decoded' = validateAndDecodeBbxx(bbxx)
    /\ decPc' = "done"
    /\ UNCHANGED <<encVars, aggVars, pluginVars, fnVars>>

EncNext == Encode \/ DecodeReport

SpecEnc == EncInit /\ [][EncNext]_vars

-----------------------------------------------------------------------------
(* validateAndDecodeBbxx applied to well-formed and malformed messages *)

MaxAltered == 2

\* a well-formed message of the shape of the test message of validate_bbxx.js, as the
\* encoder makes it
BaseGroups ==
    bbxxGroups(Num(270000), Num(15000), 28144, -112742, [day |-> 15, hour |-> 14],
               <<"W", "X", "H", "9", "5", "5", "3">>, Num(22500))

\* what a group at position p may be replaced by
AlternativeGroups ==
    [ p \in 1..24 |->
        CASE p = 1 -> {<<"A", "A", "X", "X">>}
          [] p = 3 -> {<<"3", "2", "2", "5", "4">>, <<"1", "5", "1", "4">>}
          [] p = 4 -> {<<"9", "9", "9", "0", "1">>, <<"9", "9", "2", "8">>, <<"9", "8", "2", "8", "1">>, <<"9", "9", "/", "/", "1">>}
          [] p = 5 -> {<<"9", "1", "1", "2", "7">>, <<"7", "1", "8", "0", "1">>, <<"7", "/", "/", "/", "/">>, <<"1", "1", "2", "7">>, <<"3", "1", "1", "2", "7">>}
          [] p = 6 -> {<<"4", "0", "0", "0", "0">>, <<"2", "2", "2", "/", "/">>}
          [] p = 7 -> {<<"/", "/", "/", "/", "/">>, <<"0", "2", "7", "1", "5">>, <<"/", "3", "7", "1", "5">>, <<"/", "2", "7", "/", "/">>, <<"/", "2", "7", "1", "0", "0">>, <<"/", "-", "1", "1", "5">>, <<"/", "2", "7", "-", "5">>}
          [] p = 8 -> {<<"1", "/", "/", "/">>}
          [] p = 14 -> {<<"2", "2", "2", "/">>}
          [] p = 15 -> {<<"0", "/", "/", "/", "/">>, <<"0", "9", "1", "2", "3">>, <<"0", "5", "0", "1", "5">>, <<"0", "4", "5", "0", "0">>, <<"4", "2", "2", "5">>, <<"1", "4", "2", "2", "5">>, <<"0", "4", "/", "/", "5">>}
          [] p = 24 -> {<<"/", "/", "/", "/", "/">>}
          [] OTHER -> {} ]

\* the group lists with at most k groups of BaseGroups replaced
RECURSIVE AlteredBy(_)
AlteredBy(k) ==
    IF k = 0 THEN {BaseGroups}
    ELSE LET prev == AlteredBy(k - 1)
         IN  prev \cup UNION { UNION { {[m EXCEPT ![p] = a] : a \in AlternativeGroups[p]}
                                       : p \in 1..24 } : m \in prev }

\* the first k groups of the base message, k < 15
TruncatedGroups == {SubSeq(BaseGroups, 1, k) : k \in 0..14}

Messages == {JoinSpace(m) : m \in AlteredBy(MaxAltered) \cup TruncatedGroups}

DecInit ==
    /\ decPc = "ready"
    /\ bbxxMessage \in Messages
    /\ decoded = NullRec
    /\ aggIdle
    /\ encIdle
    /\ pluginIdle
    /\ fnIdle

\* a call of validateAndDecodeBbxx
Decode ==
    /\ decPc = "ready"
    /\ decoded' = validateAndDecodeBbxx(bbxxMessage)
    /\ decPc' = "done"
    /\ UNCHANGED <<bbxxMessage, aggVars, encVars, pluginVars, fnVars>>

DecNext == Decode

SpecDec == DecInit /\ [][DecNext]_vars

-----------------------------------------------------------------------------
(* The helper functions, each applied to arguments of its own *)

\* apparent wind angles in degrees: both sides, and angles that carry past 360
WindAngles == {Num(0), Num(45000), Num(-45000), Num(-170000), Num(180000), Num(359500), Null}

WindSpeeds == {Num(0), Num(10000), Num(19438), Null}

TrueHeadings == {Num(0), Num(90000), Num(270000), Num(359000), Num(10000), Null}

SpeedsOverGround == {Num(0), Num(5000), Num(9719), Null}

calculateTrueWindArgs ==
    {<<awa, aws, trueHeading, sog>> :
        awa \in WindAngles, aws \in WindSpeeds, trueHeading \in TrueHeadings,
        sog \in SpeedsOverGround}

MaxAngles == 2

\* elements of the array handed to averageAngles: angles on both sides of north,
\* opposite ones, angles outside [0, 360), and the values that make it return null
AngleValues ==
    {Num(359000), Num(1000), Num(0), Num(180000), Num(-90000), Num(540000), Null, Undefined}

averageAnglesArgs == UNION {{<<angles>> : angles \in [1..n -> AngleValues]} : n \in 0..MaxAngles}

\* raw values of environment.water.temperature: Kelvin, Celsius, both sides of the
\* threshold of 200, and no value
WaterTemperatures ==
    { Num(288150), Num(22500), Num(0), Num(-2000), Num(199999), Num(200000), Num(200001),
      Num(273150), Null, Undefined, NaN }

collectSampleArgs ==
    {<<[throws |-> FALSE, paths |-> [r EXCEPT !.waterTemperature = t]]>> :
        r \in {ReadingA, ReadingC}, t \in WaterTemperatures}
    \cup {<<[throws |-> TRUE, paths |-> AllNullReading]>>}

FnCalls ==
    {[name |-> "calculateTrueWind", args |-> a] : a \in calculateTrueWindArgs}
    \cup {[name |-> "averageAngles", args |-> a] : a \in averageAnglesArgs}
    \cup {[name |-> "collectSample", args |-> a] : a \in collectSampleArgs}

FnInit ==
    /\ fnPc = "called"
    /\ \E call \in FnCalls : fnName = call.name /\ fnArgs = call.args
    /\ fnResult = NullRec
    /\ aggIdle
    /\ encIdle
    /\ decIdle
    /\ pluginIdle

\* a call of calculateTrueWind returns
ReturnCalculateTrueWind ==
    /\ fnPc = "called"
    /\ fnName = "calculateTrueWind"
    /\ fnResult' = calculateTrueWind(fnArgs[1], fnArgs[2], fnArgs[3], fnArgs[4])
    /\ fnPc' = "returned"
    /\ UNCHANGED <<fnName, fnArgs, aggVars, encVars, decVars, pluginVars>>

\* a call of averageAngles returns
ReturnAverageAngles ==
    /\ fnPc = "called"
    /\ fnName = "averageAngles"
    /\ fnResult' = averageAngles(fnArgs[1])
    /\ fnPc' = "returned"
    /\ UNCHANGED <<fnName, fnArgs, aggVars, encVars, decVars, pluginVars>>

\* the promise of a call of collectSample resolves
ReturnCollectSample ==
    /\ fnPc = "called"
    /\ fnName = "collectSample"
    /\ fnResult' = collectSample(fnArgs[1])
    /\ fnPc' = "returned"
    /\ UNCHANGED <<fnName, fnArgs, aggVars, encVars, decVars, pluginVars>>

FnNext ==
    \/ ReturnCalculateTrueWind
    \/ ReturnAverageAngles
    \/ ReturnCollectSample

SpecFn == FnInit /\ [][FnNext]_vars

-----------------------------------------------------------------------------
(* The plugin of index.js: start, stop, its timers, its router, generateReport *)

MaxStarts == 2

MaxTasks == 1

Str(s) == [tag |-> "string", s |-> s]

Bool(b) == [tag |-> "boolean", b |-> b]

\* the truthiness of a JavaScript value
Truthy(x) ==
    CASE x.tag = "num" -> x.v # 0
      [] x.tag = "string" -> Len(x.s) > 0
      [] x.tag = "boolean" -> x.b
      [] OTHER -> FALSE

VALID_BETA_KEY ==
    << "N", "O", "A", "A", "-", "W", "I", "N", "D", "Y", "-", "B", "E", "T", "A", "-",
       "2", "0", "2", "5", "-", "W", "X", "R", "7", "K", "9" >>

\* a key that is not the valid one
OtherKey == << "N", "O", "A", "A", "-", "W", "I", "N", "D", "Y", "-", "B", "E", "T", "A" >>

\* generateReport's default parameter: options = {}
EmptyOptions ==
    [ stationId |-> Undefined, betaKey |-> Undefined, testMode |-> Undefined,
      samples |-> Undefined, reportInterval |-> Undefined ]

Configured(key, mode, n, hours) ==
    [ stationId |-> Str(<<"W", "X", "H", "9", "5", "5", "3">>), betaKey |-> key,
      testMode |-> mode, samples |-> Num(n), reportInterval |-> Num(hours) ]

\* the configurations start() is called with over the life of the plugin: production
\* with two samples, the defaults, no station id, manual reports only
StartOptions ==
    { Configured(Str(VALID_BETA_KEY), Bool(FALSE), 2, 6),
      Configured(Str(VALID_BETA_KEY), Undefined, 1, 6),
      [Configured(Str(VALID_BETA_KEY), Bool(FALSE), 1, 6) EXCEPT !.stationId = Undefined],
      Configured(Str(VALID_BETA_KEY), Bool(TRUE), 1, 0) }

\* every combination of station id, beta key and test mode, with automatic reports
AllOptions ==
    [ stationId : {Str(<<"W", "X", "H", "9", "5", "5", "3">>), Undefined},
      betaKey : {Str(VALID_BETA_KEY), Str(OtherKey), Undefined},
      testMode : {Bool(TRUE), Bool(FALSE), Undefined},
      samples : {Num(1), Num(2)},
      reportInterval : {Num(6)} ]

\* new Date() in collectSignalkData: the clock reads the same hour throughout a run
ReportTimes == {[day |-> 15, hour |-> 14]}

\* the vessel's sensors: all there, or none (getSelfPath does not throw here)
PluginApps == {[throws |-> FALSE, paths |-> ReadingA], [throws |-> FALSE, paths |-> AllNullReading]}

validBetaKey(opts) == opts.betaKey = Str(VALID_BETA_KEY)

\* test mode read as `options.testMode` being truthy: an unset option is production
testModeUnlessFalsy(opts) == ~validBetaKey(opts) \/ Truthy(opts.testMode)

\* const testMode = !validBetaKey || options.testMode !== false
testMode(opts) == ~validBetaKey(opts) \/ opts.testMode # Bool(FALSE)

\* const samples = options.samples || 3
samplesOf(opts) == IF Truthy(opts.samples) THEN opts.samples.v ELSE 3

\* the `report` of the router's response to POST /generate-report
reportBody(result) ==
    IF result = NullRec THEN NullRec
    ELSE [ timestamp |-> result.utc_time,
           position |-> [lat |-> result.lat, lon |-> result.lon],
           trueWind |-> [direction |-> result.true_wind_dir, speed |-> result.true_wind_speed],
           bbxx |-> result.bbxx ]

\* the members of the object the module returns
pluginMembers ==
    {"id", "name", "description", "schema", "uiSchema", "start", "stop", "registerWithRouter"}

PluginInit ==
    /\ logger = "undefined"
    /\ intervalId = Null
    /\ lastReport = NullRec
    /\ pluginStarted = FALSE
    /\ options = NullRec
    /\ startCount = 0
    /\ timers = {}
    /\ tasks = {}
    /\ signalkApp \in PluginApps
    /\ submissions = {}
    /\ httpResponse = NullRec
    /\ failures = {}
    /\ aggIdle
    /\ encIdle
    /\ decIdle
    /\ fnIdle

\* generateReport settles, and its caller (a timer callback or the router's handler)
\* runs to its end: result is "resolved" or "rejected", report what it resolved to
Settle(rest, task, result, report, sent) ==
    /\ tasks' = rest
    /\ lastReport' = (IF report # NullRec THEN report ELSE lastReport)
    /\ submissions' = submissions \cup sent
    /\ httpResponse' =
           (IF task.origin # "manual" THEN httpResponse
            ELSE IF result = "resolved"
                 THEN [ route |-> "generate-report", status |-> 200,
                        body |-> [success |-> TRUE, report |-> reportBody(report)] ]
            ELSE IF logger = "open"
                 THEN [ route |-> "generate-report", status |-> 500,
                        body |-> [success |-> FALSE, report |-> NullRec] ]
            ELSE httpResponse)
    /\ failures' =
           failures
           \cup (IF result = "rejected" THEN {"generateReport rejected"} ELSE {})
           \cup (IF logger # "open" /\ (task.origin # "manual" \/ result = "rejected")
                 THEN {"unhandled rejection"} ELSE {})

\* generateReport waits: for the timer between two samples, or for axios.post
Suspend(rest, task, sent) ==
    /\ tasks' = rest \cup {task}
    /\ submissions' = submissions \cup sent
    /\ UNCHANGED <<lastReport, httpResponse, failures>>

\* generateReport from the return of collectSignalkData to axios.post or to its end
AfterLoop(rest, task, collected) ==
    \E utcTime \in ReportTimes :
        LET o == task.options
            data == collectOutcome(collected, o.stationId.s, utcTime)
            sent(posted) ==
                {[betaKey |-> o.betaKey, testMode |-> o.testMode, posted |-> posted]}
        IN  IF logger # "open" THEN Settle(rest, task, "rejected", NullRec, {})
            ELSE IF data = NullRec THEN Settle(rest, task, "resolved", NullRec, {})
            ELSE IF testMode(o) THEN Settle(rest, task, "resolved", data, sent(FALSE))
            ELSE Suspend(rest, [task EXCEPT !.pc = "posting", !.collected = <<>>,
                                            !.data = data], sent(TRUE))

\* one pass of the loop of collectSignalkData, up to the wait before the next sample
Sample(rest, task) ==
    LET sample == collectSample(signalkApp)
        collected == IF sample = NullRec THEN task.collected
                     ELSE Append(task.collected, sample)
    IN  IF task.i + 1 < samplesOf(task.options)
        THEN Suspend(rest, [task EXCEPT !.i = task.i + 1, !.collected = collected], {})
        ELSE AfterLoop(rest, task, collected)

\* a call generateReport(opts) up to its first wait
Begin(origin, opts) ==
    LET task == [ origin |-> origin, options |-> opts, pc |-> "sampling", i |-> 0,
                  collected |-> <<>>, data |-> NullRec ]
    IN  IF logger # "open" THEN Settle(tasks, task, "resolved", NullRec, {})
        ELSE IF ~Truthy(opts.stationId) THEN Settle(tasks, task, "resolved", NullRec, {})
        ELSE Sample(tasks, task)

\* plugin.start(options), options among `choices`, on a plugin that is not started
StartWith(choices) ==
    /\ ~pluginStarted
    /\ \E opts \in choices :
          /\ options' = opts
          /\ IF Truthy(opts.reportInterval) /\ opts.reportInterval.v > 0
             THEN /\ timers' = timers \cup
                        { [kind |-> "timeout", id |-> startCount + 1, options |-> opts],
                          [kind |-> "interval", id |-> startCount + 1, options |-> opts] }
                  /\ intervalId' = Num(startCount + 1)
             ELSE UNCHANGED <<timers, intervalId>>
    /\ logger' = "open"
    /\ pluginStarted' = TRUE
    /\ startCount' = startCount + 1
    /\ UNCHANGED <<lastReport, tasks, signalkApp, submissions, httpResponse, failures,
                   aggVars, encVars, decVars, fnVars>>

Start ==
    /\ startCount < MaxStarts
    /\ StartWith(StartOptions)

\* plugin.start(options) on a started plugin returns at once
StartIgnored ==
    /\ pluginStarted
    /\ UNCHANGED vars

\* plugin.stop() read differently: the recurring interval is left running
StopWithoutClearInterval ==
    /\ pluginStarted
    /\ intervalId' = Null
    /\ pluginStarted' = FALSE
    /\ lastReport' = NullRec
    /\ logger' = (IF logger = "open" THEN "null" ELSE logger)
    /\ UNCHANGED <<options, startCount, timers, tasks, signalkApp, submissions, httpResponse,
                   failures, aggVars, encVars, decVars, fnVars>>

\* plugin.stop() on a started plugin
Stop ==
    /\ pluginStarted
    /\ timers' = (IF Truthy(intervalId)
                  THEN {t \in timers : ~(t.kind = "interval" /\ Num(t.id) = intervalId)}
                  ELSE timers)
    /\ intervalId' = Null
    /\ pluginStarted' = FALSE
    /\ lastReport' = NullRec
    /\ logger' = (IF logger = "open" THEN "null" ELSE logger)
    /\ UNCHANGED <<options, startCount, tasks, signalkApp, submissions, httpResponse, failures,
                   aggVars, encVars, decVars, fnVars>>

\* plugin.stop() on a plugin that is not started returns at once
StopIgnored ==
    /\ ~pluginStarted
    /\ UNCHANGED vars

\* the callback of setTimeout(..., 2 minutes) of start()
InitialTimerFires ==
    /\ Cardinality(tasks) < MaxTasks
    /\ \E t \in timers :
          /\ t.kind = "timeout"
          /\ timers' = timers \ {t}
          /\ IF logger # "open"
             THEN /\ failures' = failures \cup {"unhandled rejection"}
                  /\ UNCHANGED <<tasks, lastReport, submissions, httpResponse>>
             ELSE IF pluginStarted THEN Begin("initial", t.options)
             ELSE UNCHANGED <<tasks, lastReport, submissions, httpResponse, failures>>
    /\ UNCHANGED <<logger, intervalId, pluginStarted, options, startCount, signalkApp,
                   aggVars, encVars, decVars, fnVars>>

\* the callback of setInterval of start()
IntervalFires ==
    /\ Cardinality(tasks) < MaxTasks
    /\ \E t \in timers :
          /\ t.kind = "interval"
          /\ IF ~pluginStarted
             THEN UNCHANGED <<tasks, lastReport, submissions, httpResponse, failures>>
             ELSE IF logger # "open"
             THEN /\ failures' = failures \cup {"unhandled rejection"}
                  /\ UNCHANGED <<tasks, lastReport, submissions, httpResponse>>
             ELSE Begin("scheduled", t.options)
    /\ UNCHANGED <<logger, intervalId, pluginStarted, options, startCount, timers, signalkApp,
                   aggVars, encVars, decVars, fnVars>>

\* the timer between two samples of a suspended generateReport fires
SampleTimerFires ==
    /\ \E task \in tasks :
          /\ task.pc = "sampling"
          /\ Sample(tasks \ {task}, task)
    /\ UNCHANGED <<logger, intervalId, pluginStarted, options, startCount, timers, signalkApp,
                   aggVars, encVars, decVars, fnVars>>

\* axios.post of sendSignalkData settles (a failure is caught there), generateReport goes on
PostSettles ==
    /\ \E task \in tasks :
          /\ task.pc = "posting"
          /\ IF logger # "open"
             THEN Settle(tasks \ {task}, task, "rejected", NullRec, {})
             ELSE Settle(tasks \ {task}, task, "resolved", task.data, {})
    /\ UNCHANGED <<logger, intervalId, pluginStarted, options, startCount, timers, signalkApp,
                   aggVars, encVars, decVars, fnVars>>

\* router.get('/status'): `pluginStatus` is declared nowhere, the handler throws
GetStatus ==
    /\ httpResponse' = [ route |-> "status", status |-> 500,
                         body |-> [success |-> FALSE, report |-> NullRec] ]
    /\ UNCHANGED <<logger, intervalId, lastReport, pluginStarted, options, startCount, timers,
                   tasks, signalkApp, submissions, failures, aggVars, encVars, decVars, fnVars>>

\* router.post('/generate-report'): calls generateReport() with no argument
PostGenerateReport ==
    /\ IF ~pluginStarted
       THEN /\ httpResponse' = [ route |-> "generate-report", status |-> 400,
                                 body |-> [success |-> FALSE, report |-> NullRec] ]
            /\ UNCHANGED <<tasks, lastReport, submissions, failures>>
       ELSE Begin("manual", EmptyOptions)
    /\ UNCHANGED <<logger, intervalId, pluginStarted, options, startCount, timers, signalkApp,
                   aggVars, encVars, decVars, fnVars>>

\* the sensors appear or disappear
SensorsChange ==
    /\ signalkApp' \in PluginApps \ {signalkApp}
    /\ UNCHANGED <<logger, intervalId, lastReport, pluginStarted, options, startCount, timers,
                   tasks, submissions, httpResponse, failures, aggVars, encVars, decVars, fnVars>>

Next ==
    \/ Start
    \/ StartIgnored
    \/ Stop
    \/ StopIgnored
    \/ InitialTimerFires
    \/ IntervalFires
    \/ SampleTimerFires
    \/ PostSettles
    \/ GetStatus
    \/ PostGenerateReport
    \/ SensorsChange

Spec == PluginInit /\ [][Next]_vars

-----------------------------------------------------------------------------
(* generateReport under every configuration: the plugin started once *)

\* the only plugin.start(options) of the run
StartOnce ==
    /\ startCount = 0
    /\ StartWith(AllOptions)

GenNext ==
    \/ StartOnce
    \/ Stop
    \/ InitialTimerFires
    \/ IntervalFires
    \/ SampleTimerFires
    \/ PostSettles
    \/ PostGenerateReport

SpecGen == PluginInit /\ [][GenNext]_vars

-----------------------------------------------------------------------------
(* Claims about collectSignalkData and averageSamples (SpecAgg) *)

aggDone == aggPc = "done" /\ Len(collectedSamples) > 0

requiredPresent(avg) ==
    /\ ~IsNull(avg.lat)
    /\ ~IsNull(avg.lon)
    /\ ~IsNull(avg.true_wind_dir)
    /\ ~IsNull(avg.true_wind_speed)
    /\ ~IsNull(avg.sog_knots)

presentIn(field) == {i \in 1..Len(collectedSamples) : ~IsNull(collectedSamples[i][field])}

RECURSIVE sumOver(_, _)
sumOver(S, f) ==
    IF S = {} THEN 0
    ELSE LET i == CHOOSE j \in S : TRUE
         IN  f[i] + sumOver(S \ {i}, f)

\* the arithmetic mean of `field` over the samples of S
meanOver(S, field) ==
    IF S = {} THEN Null
    ELSE Num(Round(sumOver(S, [i \in S |-> collectedSamples[i][field].v]), Cardinality(S)))

\* the circular mean of `field` over the samples of S
circularMeanOver(S, field) ==
    IF S = {} THEN Null
    ELSE Num(Norm360(Atan2(
             Round(sumOver(S, [i \in S |-> Sin(collectedSamples[i][field].v)]), Cardinality(S)),
             Round(sumOver(S, [i \in S |-> Cos(collectedSamples[i][field].v)]), Cardinality(S)))))

\* C9: averaging is per field: each averaged field (sog_knots, water_temp, aws, the
\* headings, awa, true_wind_dir, true_wind_speed) is the mean (arithmetic or circular)
\* over exactly the samples in which that field is non-null, and is null only when no
\* sample has it; a sample with another field null still contributes.
C9_PerFieldAveraging ==
    aggDone =>
        /\ \A f \in {"sog_knots", "water_temp", "aws", "true_wind_speed"} :
              avgData[f] = meanOver(presentIn(f), f)
        /\ \A f \in {"heading_deg", "true_heading_deg", "awa", "true_wind_dir"} :
              avgData[f] = circularMeanOver(presentIn(f), f)
        /\ \A f \in averagedFields : IsNull(avgData[f]) <=> presentIn(f) = {}

\* two samples: the first lacks the water temperature and still counts for SOG, the
\* second has both, with another SOG
C9_Witness ==
    /\ aggDone
    /\ Len(collectedSamples) = 2
    /\ IsNull(collectedSamples[1].water_temp)
    /\ ~IsNull(collectedSamples[2].water_temp)
    /\ presentIn("sog_knots") = {1, 2}
    /\ collectedSamples[1].sog_knots # collectedSamples[2].sog_knots
    /\ avgData.water_temp = collectedSamples[2].water_temp
    /\ avgData.sog_knots # collectedSamples[2].sog_knots

\* the true wind of sample i, resolved from its own apparent wind, heading and SOG
resolvedOf(i) ==
    LET s == collectedSamples[i]
    IN  calculateTrueWind(s.awa, s.aws, s.true_heading_deg, s.sog_knots)

resolvedIn == {i \in 1..Len(collectedSamples) : ~IsNull(resolvedOf(i)[1])}

\* two complete samples that differ only by the sign of the apparent wind angle
symmetricPair ==
    /\ Len(collectedSamples) = 2
    /\ resolvedIn = {1, 2}
    /\ collectedSamples[1].awa_rad.v = -collectedSamples[2].awa_rad.v
    /\ collectedSamples[1].awa_rad.v # 0
    /\ collectedSamples[1].aws = collectedSamples[2].aws
    /\ collectedSamples[1].sog_knots = collectedSamples[2].sog_knots
    /\ collectedSamples[1].true_heading_deg = collectedSamples[2].true_heading_deg

\* C10: true wind is resolved per sample before averaging: the aggregated direction
\* is the circular mean and the aggregated speed the arithmetic mean of the per-sample
\* resolved values; it is not the true wind resolved once from the averaged apparent
\* wind, heading and SOG (for two samples with opposite apparent wind angles the two
\* orders give different speeds).
C10_ResolveThenAverage ==
    aggDone =>
        /\ avgData.true_wind_dir =
              (IF resolvedIn = {} THEN Null
               ELSE Num(Norm360(Atan2(
                        Round(sumOver(resolvedIn, [i \in resolvedIn |-> Sin(resolvedOf(i)[1].v)]),
                              Cardinality(resolvedIn)),
                        Round(sumOver(resolvedIn, [i \in resolvedIn |-> Cos(resolvedOf(i)[1].v)]),
                              Cardinality(resolvedIn))))))
        /\ avgData.true_wind_speed =
              (IF resolvedIn = {} THEN Null
               ELSE Num(Round(sumOver(resolvedIn, [i \in resolvedIn |-> resolvedOf(i)[2].v]),
                              Cardinality(resolvedIn))))
        /\ symmetricPair =>
              avgData.true_wind_speed #
                  calculateTrueWind(avgData.awa, avgData.aws, avgData.true_heading_deg,
                                    avgData.sog_knots)[2]

\* the symmetric pair has been averaged
C10_Witness == aggDone /\ symmetricPair /\ ~IsNull(avgData.true_wind_speed)

\* C11: the aggregated latitude and longitude are exactly those of the last collected
\* sample, never an average and never those of an earlier sample; when the last sample
\* has no position the aggregate has none, even if an earlier sample had one.
C11_PositionOfLastSample ==
    aggDone =>
        LET last == collectedSamples[Len(collectedSamples)]
        IN  /\ avgData.lat = last.lat
            /\ avgData.lon = last.lon
            /\ IsNull(last.lat) => (IsNull(avgData.lat) /\ collectResult = NullRec)

\* two samples at different positions have been aggregated: the result is at the
\* second position, which is neither the first nor the mean of the two
C11_Witness ==
    /\ aggDone
    /\ Len(collectedSamples) = 2
    /\ IsNum(collectedSamples[1].lat) /\ IsNum(collectedSamples[2].lat)
    /\ collectedSamples[1].lat # collectedSamples[2].lat
    /\ avgData.lat = collectedSamples[2].lat
    /\ avgData.lat # meanOver({1, 2}, "lat")

trueWindInputs == {"awa", "aws", "true_heading_deg", "sog_knots"}

\* C14: true wind direction and true wind speed are null together: in every sample
\* collectSample produces and in every result of averageSamples, true_wind_dir is null
\* exactly when true_wind_speed is null, and both are null in a sample whenever its
\* apparent wind angle, apparent wind speed, true heading or SOG is null.
C14_TrueWindNullTogether ==
    /\ \A i \in 1..Len(collectedSamples) :
          LET s == collectedSamples[i]
          IN  /\ IsNull(s.true_wind_dir) <=> IsNull(s.true_wind_speed)
              /\ (\E f \in trueWindInputs : IsNull(s[f])) =>
                     (IsNull(s.true_wind_dir) /\ IsNull(s.true_wind_speed))
    /\ aggDone => (IsNull(avgData.true_wind_dir) <=> IsNull(avgData.true_wind_speed))

\* a sample without apparent wind speed (no true wind) and a complete one have been
\* averaged, and the average has both direction and speed
C14_Witness ==
    /\ aggDone
    /\ Len(collectedSamples) = 2
    /\ IsNull(collectedSamples[1].aws)
    /\ IsNull(collectedSamples[1].true_wind_dir)
    /\ ~IsNull(collectedSamples[1].awa)
    /\ ~IsNull(collectedSamples[2].true_wind_dir)
    /\ ~IsNull(avgData.true_wind_dir)
    /\ ~IsNull(avgData.true_wind_speed)

-----------------------------------------------------------------------------
(* Claims about generateBbxxReport (SpecEnc) *)

encoded == encPc = "encoded"

\* the groups of the report, as split(' ') finds them
reportGroups == SplitSpace(bbxx)

\* the first fifteen groups, in the order of the format table
headGroupsInOrder(g) ==
    /\ g[1] = <<"B", "B", "X", "X">>
    /\ g[2] = obs.stationId
    /\ g[3] = dayHourGroup(obs.utcTime)
    /\ g[4] = latCodeGroup(obs.lat)
    /\ g[5] = lonCodeGroup(obs.lat, obs.lon)
    /\ g[6] = <<"4", "3", "/", "/", "/">>
    /\ g[7] = cloudWindGroup(obs.trueWindDirection, obs.trueWindSpeed)
    /\ SubSeq(g, 8, 13) =
           << <<"1", "/", "/", "/", "/">>, <<"2", "/", "/", "/", "/">>,
              <<"4", "/", "/", "/", "/">>, <<"5", "/", "/", "/", "/">>,
              <<"7", "/", "/", "/", "/">>, <<"8", "/", "/", "/", "/">> >>
    /\ g[14] = <<"2", "2", "2", "/", "/">>
    /\ g[15] = tempCodeGroup(obs.waterTemp)

sixAfterTemperature ==
    << <<"0", "/", "/", "/", "/">>, <<"2", "/", "/", "/", "/">>, <<"3", "/", "/", "/", "/">>,
       <<"4", "/", "/", "/", "/">>, <<"5", "/", "/", "/", "/">>, <<"6", "/", "/", "/", "/">> >>

\* C3 as claimed: the report is the groups of the format table in order, separated by
\* single spaces, with exactly the six groups 0//// 2//// 3//// 4//// 5//// 6////
\* between the water temperature group and ICE.
C3_SixGroupsBeforeIce ==
    encoded =>
        /\ Len(reportGroups) = 23
        /\ headGroupsInOrder(reportGroups)
        /\ SubSeq(reportGroups, 16, 21) = sixAfterTemperature
        /\ reportGroups[22] = <<"I", "C", "E">>
        /\ reportGroups[23] = <<"/", "/", "/", "/", "/", "=">>

\* C3 (amended): the report is the groups of the format table in order, separated by
\* single spaces, with the seven groups 0//// 2//// 3//// 4//// 5//// 6//// 8////
\* between the water temperature group and ICE, and /////= last.
C3_SevenGroupsBeforeIce ==
    encoded =>
        /\ Len(reportGroups) = 24
        /\ headGroupsInOrder(reportGroups)
        /\ SubSeq(reportGroups, 16, 21) = sixAfterTemperature
        /\ reportGroups[22] = <<"8", "/", "/", "/", "/">>
        /\ reportGroups[23] = <<"I", "C", "E">>
        /\ reportGroups[24] = <<"/", "/", "/", "/", "/", "=">>
        /\ \A i \in 1..Len(bbxx) : bbxx[i] = " " => (i > 1 /\ i < Len(bbxx) /\ bbxx[i + 1] # " ")

\* a report has been encoded, with 8//// right before ICE
C3_Witness ==
    /\ encoded
    /\ Len(reportGroups) = 24
    /\ reportGroups[22] = <<"8", "/", "/", "/", "/">>
    /\ reportGroups[23] = <<"I", "C", "E">>

windInClaimedRange ==
    /\ IsNum(obs.trueWindDirection)
    /\ IsNum(obs.trueWindSpeed)
    /\ obs.trueWindDirection.v >= 0
    /\ obs.trueWindDirection.v < 360000
    /\ obs.trueWindSpeed.v >= 0

\* C4: for every true wind direction in [0,360) and every true wind speed >= 0, the
\* wind group is exactly 5 characters: '/', a 2-digit direction code in 00..36, and a
\* 2-digit speed when the speed is below 100, the sentinel '//' otherwise.
C4_WindGroupFiveChars ==
    (encoded /\ windInClaimedRange) =>
        LET w == reportGroups[7]
        IN  /\ Len(w) = 5
            /\ w[1] = "/"
            /\ IsDigit(w[2]) /\ IsDigit(w[3])
            /\ parseInt(SubSeq(w, 2, 3)).v \in 0..36
            /\ IF obs.trueWindSpeed.v < 100000
               THEN IsDigit(w[4]) /\ IsDigit(w[5])
               ELSE SubSeq(w, 4, 5) = <<"/", "/">>

\* C5: for every water temperature the Kelvin heuristic of collectSample can output,
\* the water temperature group is exactly 5 characters: '0', the sign digit 4 (>= 0)
\* or 5 (< 0), and round(|temp| * 10) as exactly 3 digits; an absent temperature gives
\* the literal 0////.
C5_WaterTempGroupFiveChars ==
    encoded =>
        LET t == reportGroups[15]
        IN  IF IsNull(obs.waterTemp) THEN t = <<"0", "/", "/", "/", "/">>
            ELSE /\ Len(t) = 5
                 /\ t[1] = "0"
                 /\ t[2] = (IF obs.waterTemp.v >= 0 THEN "4" ELSE "5")
                 /\ \A i \in 3..5 : IsDigit(t[i])
                 /\ parseInt(SubSeq(t, 3, 5)) = Num((Abs(obs.waterTemp.v) + 50) \div 100)

\* x rounded to tenths (halves away from zero), in thousandths
toTenths(x) == IF x >= 0 THEN ((x + 50) \div 100) * 100 ELSE -(((-x + 50) \div 100) * 100)

roundTripInput ==
    /\ obs.lat >= -90000 /\ obs.lat <= 90000
    /\ obs.lon >= -180000 /\ obs.lon <= 180000
    /\ windInClaimedRange
    /\ obs.trueWindSpeed.v < 100000
    /\ IsNum(obs.waterTemp)

\* C6: for every observation with latitude in [-90,90], longitude in [-180,180], wind
\* direction in [0,360), wind speed < 100 and a water temperature, decoding the
\* encoder's output recovers latitude, longitude and water temperature (sign
\* included) rounded to tenths and the wind direction rounded to the nearest 10 degrees.
C6_RoundTrip ==
    (encoded /\ decPc = "done" /\ roundTripInput) =>
        /\ decoded.type = "object"
        /\ decoded.analysis.latitude = Num(toTenths(obs.lat))
        /\ decoded.analysis.actualLongitude = Num(toTenths(obs.lon))
        /\ decoded.analysis.waterTemperature = Num(toTenths(obs.waterTemp.v))
        /\ decoded.analysis.windDirection =
               Num(((obs.trueWindDirection.v + 5000) \div 10000) * 10000)

\* C18: for every numeric latitude and longitude the quadrant digit of the encoder is
\* 1 when lat >= 0 and lon >= 0, 3 when lat < 0 and lon >= 0, 5 when lat < 0 and
\* lon < 0, 7 when lat >= 0 and lon < 0; the fallback 9 is never produced, so the
\* longitude group of an encoded report starts with 1, 3, 5 or 7.
C18_QuadrantDigit ==
    encoded =>
        LET quadrant == reportGroups[5][1]
        IN  /\ (obs.lat >= 0 /\ obs.lon >= 0) => quadrant = "1"
            /\ (obs.lat < 0 /\ obs.lon >= 0) => quadrant = "3"
            /\ (obs.lat < 0 /\ obs.lon < 0) => quadrant = "5"
            /\ (obs.lat >= 0 /\ obs.lon < 0) => quadrant = "7"
            /\ quadrant \in {"1", "3", "5", "7"}

\* a report has been encoded for a position on the equator and the prime meridian
C18_Witness ==
    /\ encoded
    /\ obs.lat = 0
    /\ obs.lon = 0
    /\ reportGroups[5][1] = "1"

\* the nearest whole multiple of unit to x >= 0, counted in units
nearest(x, unit) == (2 * x + unit) \div (2 * unit)

\* s is the decimal numeral of value, with zeros in front up to width characters
zeroPadded(s, width, value) ==
    /\ Len(s) >= width
    /\ \A i \in 1..Len(s) : IsDigit(s[i])
    /\ parseInt(s) = Num(value)
    /\ Len(s) > width => s[1] # "0"

exampleObservation ==
    /\ obs.lat = 28144
    /\ obs.lon = -112742
    /\ obs.trueWindDirection = Num(270000)
    /\ obs.trueWindSpeed = Num(15000)
    /\ obs.waterTemp = Num(22500)
    /\ obs.utcTime = [day |-> 15, hour |-> 14]
    /\ obs.stationId = <<"W", "X", "H", "9", "5", "5", "3">>

\* C19: encoding latitude 28.144, longitude -112.742, true wind 270 at 15 kn, water
\* 22.5 C, day 15 hour 14, station WXH9553 gives the groups 15144, 99281, 71127, /2715
\* and 04225; and in every report each numeric group is the rounded, zero-padded
\* value of the table: tenths for latitude, longitude and temperature, tens of
\* degrees for the direction, whole knots for the speed.
C19_EncodedGroups ==
    encoded =>
        LET g == reportGroups
        IN  /\ exampleObservation =>
                   /\ g[3] = <<"1", "5", "1", "4", "4">>
                   /\ g[4] = <<"9", "9", "2", "8", "1">>
                   /\ g[5] = <<"7", "1", "1", "2", "7">>
                   /\ g[7] = <<"/", "2", "7", "1", "5">>
                   /\ g[15] = <<"0", "4", "2", "2", "5">>
            /\ SubSeq(g[4], 1, 2) = <<"9", "9">>
            /\ zeroPadded(SubSeq(g[4], 3, Len(g[4])), 3, nearest(Abs(obs.lat), 100))
            /\ zeroPadded(SubSeq(g[5], 2, Len(g[5])), 4, nearest(Abs(obs.lon), 100))
            /\ (IsNum(obs.trueWindDirection) /\ IsNum(obs.trueWindSpeed)) =>
                   /\ g[7][1] = "/"
                   /\ zeroPadded(SubSeq(g[7], 2, 3), 2, nearest(obs.trueWindDirection.v, 10000))
                   /\ obs.trueWindSpeed.v < 100000 =>
                          zeroPadded(SubSeq(g[7], 4, Len(g[7])), 2,
                                     nearest(obs.trueWindSpeed.v, 1000))
            /\ IsNum(obs.waterTemp) =>
                   /\ SubSeq(g[15], 1, 2) = <<"0", IF obs.waterTemp.v >= 0 THEN "4" ELSE "5">>
                   /\ zeroPadded(SubSeq(g[15], 3, Len(g[15])), 3,
                                 nearest(Abs(obs.waterTemp.v), 100))

\* the observation of the example has been encoded
C19_Witness ==
    /\ encoded
    /\ exampleObservation
    /\ reportGroups[4] = <<"9", "9", "2", "8", "1">>
    /\ reportGroups[15] = <<"0", "4", "2", "2", "5">>

-----------------------------------------------------------------------------
(* Claims about the helper functions (SpecFn) *)

returnedFrom(name) == fnPc = "returned" /\ fnName = name

\* C12: for every true heading, every apparent wind angle and every sog >= 0,
\* calculateTrueWind with apparent wind speed 0 returns a true wind speed equal to sog
\* and a true wind direction equal to the true heading.
C12_CalmApparentWind ==
    ( /\ returnedFrom("calculateTrueWind")
      /\ \A i \in 1..4 : IsNum(fnArgs[i])
      /\ fnArgs[2] = Num(0)
      /\ fnArgs[4].v >= 0 )
    => ( /\ fnResult[2] = fnArgs[4]
         /\ fnResult[1] = fnArgs[3] )

\* C13: for all non-null inputs, negative apparent wind angles and sums of 360 or more
\* included, the true wind direction calculateTrueWind returns is trueHeading + awa
\* reduced modulo 360, and lies in [0, 360).
C13_DirectionModulo360 ==
    ( /\ returnedFrom("calculateTrueWind")
      /\ \A i \in 1..4 : IsNum(fnArgs[i]) )
    => ( /\ IsNum(fnResult[1])
         /\ fnResult[1].v = (fnArgs[3].v + fnArgs[1].v) % 360000
         /\ fnResult[1].v >= 0
         /\ fnResult[1].v < 360000 )

\* a call whose heading and apparent wind angle sum to less than 0 has returned
C13_Witness ==
    /\ returnedFrom("calculateTrueWind")
    /\ \A i \in 1..4 : IsNum(fnArgs[i])
    /\ fnArgs[1].v < 0
    /\ fnArgs[3].v + fnArgs[1].v < 0
    /\ fnResult[1].v = fnArgs[3].v + fnArgs[1].v + 360000

\* C15: averageAngles returns null when its input sequence is empty or contains any
\* null element, and a non-null angle for every non-empty sequence of non-null angles.
C15_AverageAnglesNull ==
    returnedFrom("averageAngles") =>
        LET angles == fnArgs[1]
        IN  /\ (Len(angles) = 0 \/ \E i \in 1..Len(angles) : IsNull(angles[i]))
                   => IsNull(fnResult)
            /\ (Len(angles) > 0 /\ \A i \in 1..Len(angles) : IsNum(angles[i]))
                   => IsNum(fnResult)

\* averageAngles has returned null for an array whose second element is null, after
\* a first element that is an angle
C15_Witness ==
    /\ returnedFrom("averageAngles")
    /\ Len(fnArgs[1]) = 2
    /\ IsNum(fnArgs[1][1])
    /\ IsNull(fnArgs[1][2])
    /\ IsNull(fnResult)

\* C16: the circular mean handles wraparound: averageAngles([359, 1]) is 0 (mod 360)
\* and not 180, and for every non-empty input of angles the result lies in [0, 360).
C16_CircularMeanWraps ==
    returnedFrom("averageAngles") =>
        LET angles == fnArgs[1]
        IN  /\ angles = <<Num(359000), Num(1000)>> => fnResult = Num(0)
            /\ (Len(angles) > 0 /\ \A i \in 1..Len(angles) : IsNum(angles[i]))
                   => (IsNum(fnResult) /\ fnResult.v >= 0 /\ fnResult.v < 360000)

\* averageAngles([359, 1]) has returned
C16_Witness ==
    /\ returnedFrom("averageAngles")
    /\ fnArgs[1] = <<Num(359000), Num(1000)>>
    /\ fnResult = Num(0)

\* C17: a raw water temperature reading is converted by subtracting 273.15 exactly
\* when it is non-null and strictly greater than 200; every other reading, exactly
\* 200 and null included, is passed through unchanged.
C17_KelvinAbove200 ==
    (returnedFrom("collectSample") /\ ~fnArgs[1].throws) =>
        LET raw == fnArgs[1].paths.waterTemperature
            converted == ~IsNull(raw) /\ IsNum(raw) /\ raw.v > 200000
        IN  /\ converted => fnResult.water_temp = Num(raw.v - 273150)
            /\ ~converted => fnResult.water_temp = raw

\* collectSample has returned a sample for a reading of exactly 200
C17_Witness ==
    /\ returnedFrom("collectSample")
    /\ ~fnArgs[1].throws
    /\ fnArgs[1].paths.waterTemperature = Num(200000)
    /\ fnResult.water_temp = Num(200000)

-----------------------------------------------------------------------------
(* Claims about generateReport and the router (SpecGen, Spec) *)

\* C2: in every execution of generateReport the report is POSTed to NOAA only if the
\* configured betaKey equals the valid beta key and options.testMode is exactly false;
\* with test mode enabled or unset, or with a missing or invalid key, sendSignalkData
\* only logs the report and no POST is issued.
C2_PostOnlyWithValidKeyAndTestModeOff ==
    /\ \A s \in submissions :
          s.posted => (s.betaKey = Str(VALID_BETA_KEY) /\ s.testMode = Bool(FALSE))
    /\ \A t \in tasks :
          t.pc = "posting" =>
              (t.options.betaKey = Str(VALID_BETA_KEY) /\ t.options.testMode = Bool(FALSE))

\* a report has been POSTed and generateReport has gone on to store it
C2_Witness ==
    /\ \E s \in submissions : s.posted
    /\ lastReport # NullRec
    /\ tasks = {}

\* the sensors deliver every path
completeSensorData == \A path \in PathNames : ~IsNull(signalkApp.paths[path])

\* C8: a POST to /generate-report on a started plugin with a configured station id
\* and complete sensor data generates a new report: the response carries a non-null
\* report and lastReport is that report.
C8_ManualReportGenerated ==
    [][ ( /\ pluginStarted
          /\ Truthy(options.stationId)
          /\ completeSensorData
          /\ httpResponse' # httpResponse
          /\ httpResponse'.route = "generate-report" )
        => ( /\ httpResponse'.status = 200
             /\ httpResponse'.body.report # NullRec
             /\ lastReport' # NullRec
             /\ httpResponse'.body.report = reportBody(lastReport') ) ]_vars

\* C27: in every plugin state (never started, started with or without a last report,
\* stopped) a GET /status request completes with a JSON response that carries
\* pluginStarted and lastReport, the plugin exposes a status message, and the
\* handler never fails with an exception.
C27_StatusAnswers ==
    (httpResponse # NullRec /\ httpResponse.route = "status") =>
        /\ httpResponse.status = 200
        /\ {"pluginStarted", "lastReport"} \subseteq DOMAIN httpResponse.body
        /\ "statusMessage" \in pluginMembers

\* the recurring report intervals that are active
activeIntervals == {t \in timers : t.kind = "interval"}

\* C28: after any interleaving of start(), stop(), timer callbacks and report
\* generations in flight, whenever the plugin is stopped there is no active recurring
\* interval and lastReport is null; and at most one recurring interval is ever
\* active, the one intervalId names.
C28_StoppedMeansIdle ==
    /\ ~pluginStarted =>
           /\ activeIntervals = {}
           /\ intervalId = Null
           /\ lastReport = NullRec
    /\ Cardinality(activeIntervals) <= 1
    /\ \A t \in activeIntervals : intervalId = Num(t.id)

\* the plugin was stopped while a generation was in flight, and that generation has
\* ended since
C28_Witness ==
    /\ ~pluginStarted
    /\ startCount >= 1
    /\ "generateReport rejected" \in failures
    /\ tasks = {}
    /\ lastReport = NullRec

\* stop() has been called since the start() that armed timer t
stoppedSince(t) == t.id < startCount \/ ~pluginStarted

\* C29: once stop() has been called, the initial-report timer armed by the preceding
\* start() never generates or submits a report, also when the plugin is started
\* again before that timer fires: its callback begins no generation, submits
\* nothing and stores no report.
C29_StaleInitialTimerIsInert ==
    [][ \A t \in timers :
            (t.kind = "timeout" /\ stoppedSince(t) /\ timers' = timers \ {t})
                => (tasks' = tasks /\ submissions' = submissions /\ lastReport' = lastReport)
      ]_vars

\* C30: report generation never fails with an uncaught exception or an unhandled
\* rejection: generateReport resolves to a report or to null in every interleaving,
\* also when stop() closes and clears the logger while a generation is waiting for
\* its samples or for the submission.
C30_GenerateReportResolves == "generateReport rejected" \notin failures

-----------------------------------------------------------------------------
(* Claims about validateAndDecodeBbxx (SpecDec) *)

\* C7: for every input string, also one with fewer than 15 groups, the decoder
\* returns a structured result with an isValid verdict and the decoded fields, never
\* a bare value.
C7_StructuredResult ==
    decPc = "done" =>
        /\ decoded.type = "object"
        /\ decoded.isValid \in BOOLEAN
        /\ "latitude" \in DOMAIN decoded.analysis

\* C20: whenever the water temperature group of a decoded message has a sign digit
\* other than 4 or 5, and the group is not the omitted 0////, the decoder marks the
\* message invalid.
C20_UnusualSignInvalid ==
    (decPc = "done" /\ decoded.type = "object") =>
        LET tempGroup == decoded.analysis.tempGroup
        IN  (/\ Len(tempGroup) >= 2
             /\ tempGroup[2] \notin {"4", "5"}
             /\ tempGroup # <<"0", "/", "/", "/", "/">>)
                => ~decoded.isValid

\* what the decoder reports about the water temperature group of the message decoded
waterTemperatureOutcome == decodeSection2(SplitSpace(bbxxMessage)).outcome

\* C21: decoding a message whose water temperature group is 0//// yields the explicit
\* "omitted" outcome for the water temperature, which is not the outcome of a
\* 5-character group starting with 0 whose sign digit is neither 4 nor 5.
C21_OmittedWaterTemperature ==
    (/\ decPc = "done"
     /\ decoded.type = "object"
     /\ decoded.analysis.tempGroup = <<"0", "/", "/", "/", "/">>)
        => /\ waterTemperatureOutcome = "omitted"
           /\ "Water Temperature: unusual sign indicator" \notin decoded.warnings

decodedObject == decPc = "done" /\ decoded.type = "object"

\* the message decoded, with its wind group replaced by a well-formed one
withWindGroup(g) == JoinSpace([SplitSpace(bbxxMessage) EXCEPT ![7] = g])

\* C22: decoding a message whose wind group is ///// reports the wind as omitted: no
\* wind direction or speed is decoded and the wind group by itself does not make
\* isValid false; a 5-character wind group that does not start with '/' and a wind
\* group of another length are errors.
C22_WindOmittedNotInvalid ==
    decodedObject =>
        LET windGroup == decoded.analysis.windGroup
        IN  /\ windGroup = <<"/", "/", "/", "/", "/">> =>
                   /\ decoded.analysis.windDirection = Undefined
                   /\ decoded.analysis.windSpeed = Undefined
                   /\ decoded.errors \cap {"Invalid wind group format",
                                            "Wind direction out of valid range"} = {}
                   /\ decoded.isValid =
                          validateAndDecodeBbxx(withWindGroup(<<"/", "2", "7", "1", "5">>)).isValid
            /\ (Len(windGroup) # 5 \/ windGroup[1] # "/") =>
                   /\ ~decoded.isValid
                   /\ "Invalid wind group format" \in decoded.errors

\* a message that is well-formed but for its omitted wind has been decoded as valid
C22_Witness ==
    /\ decodedObject
    /\ decoded.analysis.windGroup = <<"/", "/", "/", "/", "/">>
    /\ decoded.analysis.windDirection = Undefined
    /\ decoded.isValid

\* isValid of the decoder's result for a message
verdictOf(message) == validateAndDecodeBbxx(message).isValid

\* the message decoded, with the group at position p replaced by g
withGroup(p, g) == JoinSpace([SplitSpace(bbxxMessage) EXCEPT ![p] = g])

\* C23: warning-class conditions never invalidate a message: a day outside [1,31], an
\* hour outside [0,23], a negative decoded wind speed, a water temperature outside
\* [-5,40], a precipitation group other than 43/// or a missing trailing '=' leave
\* isValid as it is for the same message without that condition.
C23_WarningsDoNotInvalidate ==
    decodedObject =>
        LET parts == SplitSpace(bbxxMessage)
            a == decoded.analysis
            section2Index == FindMarker(parts)
        IN  /\ "Day or hour out of valid range" \in decoded.warnings =>
                   decoded.isValid = verdictOf(withGroup(3, <<"1", "5", "1", "4", "4">>))
            /\ JsLt(a.windSpeed, 0) =>
                   decoded.isValid =
                       verdictOf(withGroup(7, SubSeq(parts[7], 1, 3) \o <<"1", "5">>))
            /\ (JsLt(a.waterTemperature, -5000) \/ JsGt(a.waterTemperature, 40000)) =>
                   decoded.isValid =
                       verdictOf(withGroup(section2Index + 1, <<"0", "4", "2", "2", "5">>))
            /\ parts[6] # <<"4", "3", "/", "/", "/">> =>
                   decoded.isValid = verdictOf(withGroup(6, <<"4", "3", "/", "/", "/">>))
            /\ ~EndsWithEquals(bbxxMessage) =>
                   decoded.isValid = verdictOf(bbxxMessage \o <<"=">>)

\* C24: for every message with at least 15 groups, isValid is false whenever the first
\* group is not BBXX or no group equals the section-2 marker 222//, whatever the
\* other groups are.
C24_TypeAndMarkerRequired ==
    decodedObject =>
        LET parts == SplitSpace(bbxxMessage)
        IN  (\/ parts[1] # <<"B", "B", "X", "X">>
             \/ \A i \in 1..Len(parts) : parts[i] # <<"2", "2", "2", "/", "/">>)
                => ~decoded.isValid

\* a message without the section-2 marker, otherwise well-formed, has been decoded
C24_Witness ==
    /\ decodedObject
    /\ \A i \in 1..Len(SplitSpace(bbxxMessage)) :
           SplitSpace(bbxxMessage)[i] # <<"2", "2", "2", "/", "/">>
    /\ decoded.errors = {"Missing section 2 identifier (222//)"}
    /\ ~decoded.isValid

\* C25: if a fixed-width group of a message (day/hour, latitude, longitude,
\* precipitation, wind, an omitted group such as 1////, the water temperature group)
\* does not have its width of 5 characters, the decoder sets isValid to false.
C25_WrongWidthInvalid ==
    decodedObject =>
        LET parts == SplitSpace(bbxxMessage)
            section2Index == FindMarker(parts)
        IN  (\/ \E p \in 3..13 : Len(parts[p]) # 5
             \/ /\ section2Index # 0
                /\ Len(parts) > section2Index
                /\ Len(parts[section2Index + 1]) # 5)
                => ~decoded.isValid

\* x is a number between lo and hi, in thousandths
numberIn(x, lo, hi) == IsNum(x) /\ x.v >= lo /\ x.v <= hi

\* C26: whenever the decoder returns isValid = true, the quadrant digit is one of 1, 3,
\* 5, 7, the decoded latitude is a number in [0, 90], the decoded longitude is a
\* number in [-180, 180] and, when the wind is not omitted, the decoded wind
\* direction is a number in [0, 360]: no group whose value characters are not digits
\* is accepted with an unparsed value.
C26_ValidMeansDecoded ==
    (decodedObject /\ decoded.isValid) =>
        LET a == decoded.analysis
            w == a.windGroup
            windOmitted == SubSeq(w, 2, 3) = <<"/", "/">> \/ SubSeq(w, 4, 5) = <<"/", "/">>
        IN  /\ a.quadrant \in {Num(1), Num(3), Num(5), Num(7)}
            /\ numberIn(a.latitude, 0, 90000)
            /\ numberIn(a.actualLongitude, -180000, 180000)
            /\ ~windOmitted => numberIn(a.windDirection, 0, 360000)

====
